---- MODULE Spec2Model ----
(***************************************************************************)
(* Verification model of the trademark conflict-scoring engine             *)
(* (services/comparison_service.py), its text utilities                    *)
(* (utils/text_processing.py), the consistency auditor (utils/ml_utils.py, *)
(* services/analysis_service.py) and the "Check Conflicts" handler of      *)
(* main.py.                                                                *)
(*                                                                         *)
(* Conventions.  A Python str is a sequence of one-character strings       *)
(* (<<"a", "b">> is 'ab'); a character outside ASCII is written by name    *)
(* ("en_dash").  A similarity score of the embedding collaborator is an    *)
(* integer number of hundredths (0.84 is 84); a fuzz ratio is an integer   *)
(* 0..100 as in the library.  The external collaborators (sentence         *)
(* embedding, fuzz.ratio, fuzz.partial_ratio, phonetics.metaphone, the     *)
(* language-model oracle) are nondeterministic: every call draws its       *)
(* answer from a small set that straddles the threshold the code applies.  *)
(***************************************************************************)
EXTENDS Integers, Sequences, FiniteSets, TLC

(***************************************************************************)
(* Characters and the str methods the code uses                            *)
(***************************************************************************)
UpperLetters ==
    <<"A","B","C","D","E","F","G","H","I","J","K","L","M",
      "N","O","P","Q","R","S","T","U","V","W","X","Y","Z">>

LowerLetters ==
    <<"a","b","c","d","e","f","g","h","i","j","k","l","m",
      "n","o","p","q","r","s","t","u","v","w","x","y","z">>

Digits == <<"0","1","2","3","4","5","6","7","8","9">>

WhitespaceChars == {" ", "\t", "\n"}

\* U+2212, U+2013 and U+2014: the three hyphen-like characters normalize_text folds
HyphenLikeChars == {"minus_sign", "en_dash", "em_dash"}

\* U+2019, the character normalize_text_name replaces by a space
RightQuote == "right_quote"

Range(s) == {s[i] : i \in 1..Len(s)}

IsSpace(c) == c \in WhitespaceChars

DigitChars == Range(Digits)

UpperChars == Range(UpperLetters)

\* U+0130, the capital letter whose lower case is two characters: i and the
\* combining dot U+0307, a mark that is neither \w nor \s
CapitalIDot == "capital_i_dot"

CombiningDot == "combining_dot"

\* \w of the re module: letters, digits and the underscore
WordChars ==
    UpperChars \cup Range(LowerLetters) \cup DigitChars \cup {"_", CapitalIDot}

IsDigit(c) == c \in DigitChars

IsWordChar(c) == c \in WordChars

LowerOf ==
    [c \in UpperChars |->
        LowerLetters[CHOOSE i \in 1..Len(UpperLetters) : UpperLetters[i] = c]]

LowerChar(c) == IF c \in UpperChars THEN LowerOf[c] ELSE c

\* str.lower()
RECURSIVE lower(_)
lower(s) ==
    IF \A i \in 1..Len(s) : s[i] # CapitalIDot
    THEN [i \in 1..Len(s) |-> LowerChar(s[i])]
    ELSE lower(SubSeq(s, 1, Len(s) - 1))
         \o (IF s[Len(s)] = CapitalIDot THEN <<"i", CombiningDot>>
             ELSE <<LowerChar(s[Len(s)])>>)

\* the positions of s that hold a character other than whitespace
InkPositions(s) == {i \in 1..Len(s) : ~IsSpace(s[i])}

Least(S) == CHOOSE i \in S : \A j \in S : i <= j

Greatest(S) == CHOOSE i \in S : \A j \in S : j <= i

lstrip(s) ==
    IF InkPositions(s) = {} THEN <<>> ELSE SubSeq(s, Least(InkPositions(s)), Len(s))

rstrip(s) ==
    IF InkPositions(s) = {} THEN <<>> ELSE SubSeq(s, 1, Greatest(InkPositions(s)))

\* str.strip()
strip(s) == rstrip(lstrip(s))

\* the Python test  sub in s
contains(sub, s) ==
    \E i \in 0..(Len(s) - Len(sub)) : SubSeq(s, i + 1, i + Len(sub)) = sub

\* s.startswith(prefix)
startswith(s, prefix) ==
    Len(prefix) <= Len(s) /\ SubSeq(s, 1, Len(prefix)) = prefix

\* the index of the first occurrence of character c in s, 0 when there is none
IndexOf(s, c) ==
    IF c \in Range(s) THEN CHOOSE i \in 1..Len(s) : s[i] = c /\ \A j \in 1..(i - 1) : s[j] # c
    ELSE 0

\* s.split(sep) for a one-character separator: empty pieces are kept
RECURSIVE split_on(_, _)
split_on(s, sep) ==
    LET idx == IndexOf(s, sep)
    IN  IF idx = 0 THEN <<s>>
        ELSE <<SubSeq(s, 1, idx - 1)>> \o split_on(SubSeq(s, idx + 1, Len(s)), sep)

\* the length of the leading run of non-whitespace characters of s
WordRun(s) ==
    LET blanks == {i \in 1..Len(s) : IsSpace(s[i])}
    IN  IF blanks = {} THEN Len(s) ELSE Least(blanks) - 1

\* s.split(): the whitespace-separated words, no empty piece
RECURSIVE split(_)
split(s) ==
    LET t == lstrip(s)
        n == WordRun(t)
    IN  IF t = <<>> THEN <<>>
        ELSE <<SubSeq(t, 1, n)>> \o split(SubSeq(t, n + 1, Len(t)))

\* " ".join(words)
RECURSIVE join(_)
join(words) ==
    IF words = <<>> THEN <<>>
    ELSE IF Len(words) = 1 THEN words[1]
    ELSE words[1] \o <<" ">> \o join(Tail(words))

\* the value of a non-empty run of decimal digits
RECURSIVE DigitsValue(_)
DigitsValue(s) ==
    IF s = <<>> THEN 0
    ELSE 10 * DigitsValue(SubSeq(s, 1, Len(s) - 1))
         + (CHOOSE d \in 0..9 : Digits[d + 1] = s[Len(s)])

\* int(s) accepts surrounding whitespace, one optional sign and decimal digits
\* (digit-group underscores are outside the alphabets used here); it raises
\* ValueError on anything else, the empty string included.
IntBody(s) == IF s # <<>> /\ Head(s) \in {"+", "-"} THEN Tail(s) ELSE s

int_ok(s) ==
    LET b == IntBody(strip(s))
    IN  b # <<>> /\ \A i \in 1..Len(b) : IsDigit(b[i])

int(s) ==
    LET t == strip(s)
        v == DigitsValue(IntBody(t))
    IN  IF t # <<>> /\ Head(t) = "-" THEN 0 - v ELSE v

(***************************************************************************)
(* utils/text_processing.py                                                *)
(***************************************************************************)
\* normalize_text_name: the right quote becomes a space, lower case, whitespace
\* runs collapse to one space and the ends are trimmed
normalize_text_name(text) ==
    join(split(lower([i \in 1..Len(text) |->
                        IF text[i] = RightQuote THEN " " ELSE text[i]])))

words_to_remove ==
    <<<<"c","l","a","s","s">>,
      <<"c","a","r","e">>,
      <<"i","n">>,
      <<"a","n","d">>,
      <<"t","h","e">>,
      <<"f","o","r">>,
      <<"w","i","t","h">>,
      <<"f","r","o","m">>,
      <<"t","o">>,
      <<"u","n","d","e","r">>,
      <<"u","s","i","n","g">>,
      <<"o","f">>,
      <<"n","o">>,
      <<"i","n","c","l","u","d","e">>,
      <<"e","x">>,
      <<"e","x","a","m","p","l","e">>,
      <<"c","l","a","s","s","e","s">>,
      <<"s","e","a","r","c","h">>,
      <<"s","c","o","p","e">>,
      <<"s","h","o","w","e","r">>,
      <<"p","r","o","d","u","c","t","s">>,
      <<"s","h","a","m","p","o","o","s">>>>

\* \b holds before position i (the character at i being a word character)
BoundaryBefore(text, i) == i = 1 \/ ~IsWordChar(text[i - 1])

\* \b holds after position i (the character at i being a word character)
BoundaryAfter(text, i) == i = Len(text) \/ ~IsWordChar(text[i + 1])

\* the pattern \bword\b matches text at position i
WordAt(text, word, i) ==
    /\ i + Len(word) - 1 <= Len(text)
    /\ text[i] = word[1]
    /\ SubSeq(text, i, i + Len(word) - 1) = word
    /\ BoundaryBefore(text, i)
    /\ BoundaryAfter(text, i + Len(word) - 1)

\* re.sub(r"\b" + word + r"\b", repl, text): the leftmost match is replaced and
\* the scan goes on behind it.  The character behind a match is no word
\* character, so the rest of the text matches where the whole text does.
RECURSIVE sub_word(_, _, _)
sub_word(text, word, repl) ==
    LET starts == {i \in 1..Len(text) : WordAt(text, word, i)}
    IN  IF starts = {} THEN text
        ELSE LET m == Least(starts)
             IN  SubSeq(text, 1, m - 1) \o repl
                 \o sub_word(SubSeq(text, m + Len(word), Len(text)), word, repl)

\* position i lies in a match of \b\d+\b: a run of digits with a word boundary
\* on both sides (the run is then a whole run of word characters)
InNumber(text, i) ==
    \E lo \in 1..i : \E hi \in i..Len(text) :
        /\ \A k \in lo..hi : IsDigit(text[k])
        /\ BoundaryBefore(text, lo)
        /\ BoundaryAfter(text, hi)

\* re.sub(r"\b\d+\b", "", text)
sub_numbers(text) ==
    LET kept == SelectSeq([i \in 1..Len(text) |-> i], LAMBDA i : ~InNumber(text, i))
    IN  [j \in 1..Len(kept) |-> text[kept[j]]]

\* the loop  for word in words: text = re.sub(r"\b" + word + r"\b", "", text)
RECURSIVE remove_words(_, _)
remove_words(text, words) ==
    IF words = <<>> THEN text
    ELSE remove_words(sub_word(text, Head(words), <<>>), Tail(words))

\* re.sub of the hyphen-like characters by "-", then of [^\w\s-] by " "
fold_hyphens(text) ==
    [i \in 1..Len(text) |-> IF text[i] \in HyphenLikeChars THEN "-" ELSE text[i]]

strip_punctuation(text) ==
    [i \in 1..Len(text) |->
        IF IsWordChar(text[i]) \/ IsSpace(text[i]) \/ text[i] = "-"
        THEN text[i] ELSE " "]

normalize_text(text) ==
    LET t1 == fold_hyphens(text)
        t2 == strip_punctuation(t1)
        t3 == lower(t2)
        t4 == sub_numbers(t3)
        t5 == remove_words(t4, words_to_remove)
        t6 == sub_word(t5, <<"s","h","a","m","p","o","o","s">>, <<"h","a","i","r">>)
    IN  join(split(t6))

\* validation.py, the common_words list of the normalize_text nested in
\* is_similar_goods_services: words_to_remove without its last word, "shampoos"
common_words_to_remove == SubSeq(words_to_remove, 1, Len(words_to_remove) - 1)

\* validation.py, the normalize_text nested in is_similar_goods_services
is_similar_goods_services_normalize_text(text) ==
    LET t1 == fold_hyphens(text)
        t2 == strip_punctuation(t1)
        t3 == lower(t2)
        t4 == sub_numbers(t3)
        t5 == remove_words(t4, common_words_to_remove)
        t6 == sub_word(t5, <<"s","h","a","m","p","o","o","s">>, <<"h","a","i","r">>)
    IN  join(split(t6))

Min3(x, y, z) ==
    IF x <= y /\ x <= z THEN x ELSE IF y <= z THEN y ELSE z

\* a variant of the inner loop in which a substitution costs one edit even
\* when the two characters are equal
RECURSIVE levenshtein_current_row_substitution_always_costs(_, _, _, _)
levenshtein_current_row_substitution_always_costs(previous_row, c1, b, current_row) ==
    LET j == Len(current_row)
    IN  IF j = Len(b) + 1 THEN current_row
        ELSE LET insertions == previous_row[j + 1] + 1
                 deletions == current_row[j] + 1
                 substitutions == previous_row[j] + 1
             IN  levenshtein_current_row_substitution_always_costs(previous_row, c1, b,
                     Append(current_row, Min3(insertions, deletions, substitutions)))

\* the inner loop over b: current_row grows from [i + 1] to len(b) + 1 entries
RECURSIVE levenshtein_current_row(_, _, _, _)
levenshtein_current_row(previous_row, c1, b, current_row) ==
    LET j == Len(current_row)
    IN  IF j = Len(b) + 1 THEN current_row
        ELSE LET insertions == previous_row[j + 1] + 1
                 deletions == current_row[j] + 1
                 substitutions == previous_row[j] + (IF c1 # b[j] THEN 1 ELSE 0)
             IN  levenshtein_current_row(previous_row, c1, b,
                     Append(current_row, Min3(insertions, deletions, substitutions)))

\* the outer loop over a, from its i-th character on
RECURSIVE levenshtein_rows(_, _, _, _)
levenshtein_rows(a, b, i, previous_row) ==
    IF i > Len(a) THEN previous_row
    ELSE levenshtein_rows(a, b, i + 1,
             levenshtein_current_row(previous_row, a[i], b, <<i>>))

RECURSIVE levenshtein_distance(_, _)
levenshtein_distance(a, b) ==
    IF Len(a) < Len(b) THEN levenshtein_distance(b, a)
    ELSE IF Len(b) = 0 THEN Len(a)
    ELSE LET last == levenshtein_rows(a, b, 1, [k \in 1..(Len(b) + 1) |-> k - 1])
         IN  last[Len(last)]

(***************************************************************************)
(* config/settings.py and the thresholds written in comparison_service.py  *)
(***************************************************************************)
SEMANTIC_SIMILARITY_THRESHOLD == 84

PHONETIC_SIMILARITY_THRESHOLD == 84

\* target_market_and_goods_overlap(existing_gs, proposed_gs, threshold=0.65)
GoodsOverlapThreshold == 65

\* is_similar_goods_services(existing_goods, proposed_goods, threshold=0.65)
SimilarGoodsThreshold == 65

\* assess_conflict: semantic_similarity >= 0.5
NameMatchSemanticThreshold == 50

\* assess_conflict: string_similarity >= 55
NameMatchStringThreshold == 55

\* assess_conflict: is_phonetic_partial_match(name1, name2, threshold=55)
PartialRatioThreshold == 55

\* assess_conflict: the number the result of is_phonetic_partial_match is compared with
PartialMatchCompared == 55

(***************************************************************************)
(* utils/ml_utils.py: the evaluators, applied to the collaborator's answer *)
(***************************************************************************)
\* similarity_score is util.cos_sim of the two embeddings, in hundredths
is_semantically_equivalent(similarity_score) ==
    similarity_score >= SEMANTIC_SIMILARITY_THRESHOLD

\* ratio is fuzz.ratio(name1.lower(), name2.lower())
is_phonetically_equivalent(ratio) == ratio >= PHONETIC_SIMILARITY_THRESHOLD

\* whether first_words_phonetically_equivalent reaches its fuzz.ratio call
first_words_compared(existing_name, proposed_name) ==
    Len(split(lower(existing_name))) >= 2 /\ Len(split(lower(proposed_name))) >= 2

\* ratio is fuzz.ratio of the first two words of each name
first_words_phonetically_equivalent(existing_name, proposed_name, ratio) ==
    IF ~first_words_compared(existing_name, proposed_name) THEN FALSE
    ELSE ratio >= PHONETIC_SIMILARITY_THRESHOLD

(***************************************************************************)
(* services/comparison_service.py: compare_trademarks                      *)
(***************************************************************************)
\* WordNetLemmatizer().lemmatize(word) on the vocabulary used here: a plural
\* noun goes to its singular, any other word to itself
LemmaTable ==
    {<<(<<"s","h","i","r","t","s">>), (<<"s","h","i","r","t">>)>>,
     <<(<<"c","o","l","o","r","s">>), (<<"c","o","l","o","r">>)>>}

lemmatize(word) ==
    IF \E p \in LemmaTable : p[1] = word
    THEN (CHOOSE p \in LemmaTable : p[1] = word)[2]
    ELSE word

\* [int(c.strip()) for c in proposed_class.split(",")] raises ValueError unless
\* every piece is an integer literal
proposed_classes_ok(proposed_class) ==
    LET pieces == split_on(proposed_class, ",")
    IN  \A i \in 1..Len(pieces) : int_ok(pieces[i])

proposed_classes(proposed_class) ==
    LET pieces == split_on(proposed_class, ",")
    IN  [i \in 1..Len(pieces) |-> int(pieces[i])]

condition_1A_satisfied(existing_name, proposed_name) ==
    lower(strip(existing_name)) = lower(strip(proposed_name))

condition_1E_satisfied(existing_name, proposed_name) ==
    startswith(lower(existing_name), lower(proposed_name))

condition_2_satisfied(international_class_number, classes) ==
    Range(international_class_number) \cap Range(classes) # {}

\* the lemmatized word sets of the two normalized texts share a word
common_words(existing_normalized, proposed_normalized) ==
    {lemmatize(w) : w \in Range(split(existing_normalized))}
    \cap {lemmatize(w) : w \in Range(split(proposed_normalized))} # {}

\* a variant of target_market_and_goods_overlap without the lemma comparison
target_market_and_goods_overlap_embedding_only(existing_normalized, proposed_normalized, similarity_score) ==
    similarity_score >= GoodsOverlapThreshold

\* existing_normalized and proposed_normalized are normalize_text of the two
\* descriptions; similarity_score is util.cos_sim of their embeddings
target_market_and_goods_overlap(existing_normalized, proposed_normalized, similarity_score) ==
    IF similarity_score >= GoodsOverlapThreshold THEN TRUE
    ELSE common_words(existing_normalized, proposed_normalized)

\* validation.py, is_similar_goods_services(existing_goods, proposed_goods,
\* threshold=0.65) on the two normalized descriptions; similarity_score is
\* util.cos_sim of their embeddings
is_similar_goods_services(existing_normalized, proposed_normalized, similarity_score) ==
    IF similarity_score >= SimilarGoodsThreshold THEN TRUE
    ELSE common_words(existing_normalized, proposed_normalized)

DeadStatusKeywords ==
    {<<"c","a","n","c","e","l","l","e","d">>,
     <<"a","b","a","n","d","o","n","e","d">>,
     <<"e","x","p","i","r","e","d">>}

\* status = existing_trademark["status"].strip().lower();
\* any(keyword in status for keyword in ["cancelled", "abandoned", "expired"])
status_is_dead(status) ==
    \E keyword \in DeadStatusKeywords : contains(keyword, lower(strip(status)))

BoolInt(b) == IF b THEN 1 ELSE 0

\* a variant of points_grade that grades two points High
points_grade_two_is_high(points) ==
    IF points >= 2 THEN "High"
    ELSE IF points = 1 THEN "Low"
    ELSE "None"

points_grade(points) ==
    IF points = 3 THEN "High"
    ELSE IF points = 2 THEN "Moderate"
    ELSE IF points = 1 THEN "Low"
    ELSE "None"

NoDesignPhrase == "No Design phrase presented in document"

design_label(design_phrase) ==
    IF design_phrase = NoDesignPhrase THEN "Word" ELSE "Design"

\* the labels appended to condition_1_details, in the order of the code
condition_1_details(c1A, c1B, c1C, c1D, c1E) ==
    (IF c1A THEN <<"Exact character-for-character match">> ELSE <<>>)
    \o (IF c1B THEN <<"Semantically equivalent">> ELSE <<>>)
    \o (IF c1C THEN <<"Phonetically equivalent">> ELSE <<>>)
    \o (IF c1D THEN <<"First two or more words are phonetically equivalent">> ELSE <<>>)
    \o (IF c1E THEN <<"Proposed name is the first word of the existing trademark">> ELSE <<>>)

\* the four return statements: which of "Mark", "Class", "Goods/Services" is ticked
compare_ticks(c1, c2, c3) ==
    IF c1 /\ c2 /\ c3 THEN [Mark |-> TRUE, Class |-> TRUE, Goods_Services |-> TRUE]
    ELSE IF c1 /\ c2 THEN [Mark |-> TRUE, Class |-> TRUE, Goods_Services |-> FALSE]
    ELSE IF c2 /\ c3 THEN [Mark |-> FALSE, Class |-> TRUE, Goods_Services |-> TRUE]
    ELSE [Mark |-> FALSE, Class |-> TRUE, Goods_Services |-> FALSE]

Raised(error) == [kind |-> "raised", error |-> error]

Returned(verdict) == [kind |-> "returned", verdict |-> verdict]

(* The goods/services descriptions of the model *)
CandidateGoods ==
    {<<"h","a","i","r"," ","c","o","l","o","r">>,
     <<"C","l","o","t","h","i","n","g",","," ","n","a","m","e","l","y"," ","s","h","i","r","t","s">>,
     <<"S","h","o","w","e","r"," ","p","r","o","d","u","c","t","s">>}

ProposedGoods ==
    {<<"p","e","r","m","a","n","e","n","t"," ","h","a","i","r"," ","c","o","l","o","r">>,
     <<"S","h","i","r","t","s">>}

\* normalize_text of every description of the model, computed once
normalized ==
    [text \in CandidateGoods \cup ProposedGoods |-> normalize_text(text)]

\* lines 103-244: the grade, the reasoning and the returned dictionary, from the
\* conditions computed before
compare_verdict(existing_trademark, c1A, c1B, c1C, c1D, c1E, c1, c2, c3, dead) ==
    [function |-> "compare_trademarks",
     trademark_name |-> existing_trademark.trademark_name,
     status |-> existing_trademark.status,
     class_number |-> existing_trademark.international_class_number,
     serial_number |-> existing_trademark.serial_number,
     word_design |-> design_label(existing_trademark.design_phrase),
     conflict_grade |->
         IF dead THEN "Low"
         ELSE points_grade(BoolInt(c1) + BoolInt(c2) + BoolInt(c3)),
     reasoning |->
         IF dead THEN [kind |-> "status_override"]
         ELSE [kind |-> "conditions",
               condition_1 |-> c1,
               details |-> IF c1 THEN condition_1_details(c1A, c1B, c1C, c1D, c1E)
                           ELSE <<>>,
               condition_2 |-> c2,
               condition_3 |-> c3],
     Mark |-> compare_ticks(c1, c2, c3).Mark,
     Class |-> compare_ticks(c1, c2, c3).Class,
     Goods_Services |-> compare_ticks(c1, c2, c3).Goods_Services,
     Direct_Hit |-> FALSE]

\* lines 28-63: the five name conditions, then the verdict
compare_conditions(existing_trademark, c1A, c1B, c1C, c1D, c1E, c2, c3, dead) ==
    compare_verdict(existing_trademark, c1A, c1B, c1C, c1D, c1E,
                    c1A \/ c1B \/ c1C \/ c1D \/ c1E, c2, c3, dead)

\* answers: what the collaborators return during the call.  answers.failed: the
\* embedding collaborator raises, and nothing in compare_trademarks catches it.
compare_trademarks(existing_trademark, proposed_name, proposed_class, proposed_goods_services, answers) ==
    IF ~proposed_classes_ok(proposed_class) THEN Raised("ValueError")
    ELSE IF answers.failed THEN Raised("CollaboratorError")
    ELSE Returned(compare_conditions(existing_trademark,
            condition_1A_satisfied(existing_trademark.trademark_name, proposed_name),
            is_semantically_equivalent(answers.name_similarity),
            is_phonetically_equivalent(answers.name_ratio),
            first_words_phonetically_equivalent(existing_trademark.trademark_name,
                proposed_name, answers.first_words_ratio),
            condition_1E_satisfied(existing_trademark.trademark_name, proposed_name),
            condition_2_satisfied(existing_trademark.international_class_number,
                proposed_classes(proposed_class)),
            target_market_and_goods_overlap(
                normalized[existing_trademark.goods_services],
                normalized[proposed_goods_services], answers.goods_similarity),
            status_is_dead(existing_trademark.status)))

(***************************************************************************)
(* services/comparison_service.py: assess_conflict                         *)
(***************************************************************************)
is_substring_match(name1, name2) ==
    contains(lower(name1), lower(name2)) \/ contains(lower(name2), lower(name1))

has_shared_word(name1, name2) ==
    Range(split(lower(name1))) \cap Range(split(lower(name2))) # {}

\* partial_ratio is fuzz.partial_ratio(name1.lower(), name2.lower())
is_phonetic_partial_match(partial_ratio) == partial_ratio >= PartialRatioThreshold

\* metaphone is a function of its argument: equal names have equal codes, and
\* for different names the encoder's answer decides
phonetic_match(existing_name, proposed_name, codes_equal) ==
    existing_name = proposed_name \/ codes_equal

\* a variant of name_match_decision that looks at the two scores only
name_match_decision_scores_only(phonetic, substring, shared, semantic_similarity, string_similarity, phonetic_partial_match) ==
    \/ semantic_similarity >= NameMatchSemanticThreshold
    \/ string_similarity >= NameMatchStringThreshold

\* the  if  of the decision logic; phonetic_partial_match is the bool that
\* is_phonetic_partial_match returned, compared with a number as an int
name_match_decision(phonetic, substring, shared, semantic_similarity, string_similarity, phonetic_partial_match) ==
    \/ phonetic
    \/ substring
    \/ shared
    \/ semantic_similarity >= NameMatchSemanticThreshold
    \/ string_similarity >= NameMatchStringThreshold
    \/ BoolInt(phonetic_partial_match) >= PartialMatchCompared

assess_conflict(existing_trademark, proposed_name, proposed_class, proposed_goods_services, answers) ==
    LET dead == status_is_dead(existing_trademark.status)
        existing_trademark_name == normalize_text_name(existing_trademark.trademark_name)
        proposed == normalize_text_name(proposed_name)
        phonetic == phonetic_match(existing_trademark_name, proposed, answers.codes_equal)
        substring == is_substring_match(existing_trademark_name, proposed)
        shared == has_shared_word(existing_trademark_name, proposed)
        partial == is_phonetic_partial_match(answers.partial_ratio)
        name_match == name_match_decision(phonetic, substring, shared,
                          answers.semantic_similarity, answers.string_similarity, partial)
    IN  IF ~dead /\ answers.failed THEN Raised("CollaboratorError")
        ELSE Returned(
          [function |-> "assess_conflict",
           trademark_name |-> existing_trademark.trademark_name,
           status |-> existing_trademark.status,
           class_number |-> existing_trademark.international_class_number,
           serial_number |-> existing_trademark.serial_number,
           word_design |-> design_label(existing_trademark.design_phrase),
           conflict_grade |-> IF dead THEN "Low"
                              ELSE IF name_match THEN "Name-Match" ELSE "Low",
           reasoning |->
               IF dead THEN [kind |-> "status_override"]
               ELSE [kind |-> "signals",
                     condition_1 |-> phonetic,
                     condition_2 |-> substring,
                     condition_3 |-> shared,
                     condition_4 |-> BoolInt(partial) >= PartialMatchCompared,
                     condition_4_score |-> BoolInt(partial),
                     condition_5 |-> answers.semantic_similarity >= NameMatchSemanticThreshold,
                     condition_5_score |-> answers.semantic_similarity,
                     condition_6 |-> answers.string_similarity >= NameMatchStringThreshold,
                     condition_6_score |-> answers.string_similarity],
           Mark |-> FALSE,
           Class |-> FALSE,
           Goods_Services |-> FALSE,
           Direct_Hit |-> TRUE])

(***************************************************************************)
(* utils/ml_utils.py: consistency_check                                    *)
(* services/analysis_service.py: section_one_analysis                      *)
(***************************************************************************)
\* dict.get(key, default)
get(dict, key, default) == IF key \in DOMAIN dict THEN dict[key] ELSE default

\* the JSON value null where a mark string is expected
NoneMark == <<"None">>

\* the JSON value null where an object is expected
NoneObject == [None |-> TRUE]

\* a variant of distance_bucket that leaves a one-letter difference in identical_marks
distance_bucket_one_is_identical(diff) ==
    IF diff <= 1 THEN "identical_marks"
    ELSE IF diff = 2 THEN "two_letter_marks"
    ELSE "similar_marks"

\* the bucket of the corrected dictionary an entry at this distance is appended to
distance_bucket(diff) ==
    IF diff = 0 THEN "identical_marks"
    ELSE IF diff = 1 THEN "one_letter_marks"
    ELSE IF diff = 2 THEN "two_letter_marks"
    ELSE "similar_marks"

\* a variant of refile_entry that files a one-letter difference twice
refile_entry_twice(proposed_mark, corrected, entry) ==
    LET candidate == get(entry, "mark", <<>>)
        diff == levenshtein_distance(proposed_mark, candidate)
        filed == [corrected EXCEPT ![distance_bucket(diff)] = Append(@, entry)]
    IN  IF diff = 1 THEN [filed EXCEPT !["two_letter_marks"] = Append(@, entry)]
        ELSE filed

\* one pass of the body of the two  for entry in ...  loops
refile_entry(proposed_mark, corrected, entry) ==
    LET candidate == get(entry, "mark", <<>>)
        diff == levenshtein_distance(proposed_mark, candidate)
    IN  [corrected EXCEPT ![distance_bucket(diff)] = Append(@, entry)]

RECURSIVE refile(_, _, _)
\* for entry in entries: ...
refile(proposed_mark, corrected, entries) ==
    IF entries = <<>> THEN corrected
    ELSE refile(proposed_mark, refile_entry(proposed_mark, corrected, Head(entries)),
                Tail(entries))

\* a variant of consistency_check that files the oracle's similar marks after
\* the re-filed entries
consistency_check_similar_last(proposed_mark, classification) ==
    LET corrected == [identical_marks |-> <<>>,
                      one_letter_marks |-> <<>>,
                      two_letter_marks |-> <<>>,
                      similar_marks |-> <<>>]
        after_identical == refile(proposed_mark, corrected,
                               get(classification, "identical_marks", <<>>))
        after_all == refile(proposed_mark, after_identical,
                            get(classification, "one_two_letter_marks", <<>>))
    IN  [after_all EXCEPT !.similar_marks =
             @ \o get(classification, "similar_marks", <<>>)]

consistency_check(proposed_mark, classification) ==
    LET corrected == [identical_marks |-> <<>>,
                      one_letter_marks |-> <<>>,
                      two_letter_marks |-> <<>>,
                      similar_marks |-> get(classification, "similar_marks", <<>>)]
        after_identical == refile(proposed_mark, corrected,
                               get(classification, "identical_marks", <<>>))
    IN  refile(proposed_mark, after_identical,
               get(classification, "one_two_letter_marks", <<>>))

\* a variant of consistency_check_raises for a loop body that reads entry["mark"]
consistency_check_raises_on_absent_mark(proposed_mark, classification) ==
    \E key \in {"identical_marks", "one_two_letter_marks"} :
        \E k \in 1..Len(get(classification, key, <<>>)) :
            \/ "mark" \notin DOMAIN get(classification, key, <<>>)[k]
            \/ get(get(classification, key, <<>>)[k], "mark", <<>>) = NoneMark

\* consistency_check raises where levenshtein_distance takes len() of null:
\* an entry of a bucket it reads whose mark is null
consistency_check_raises(proposed_mark, classification) ==
    \E key \in {"identical_marks", "one_two_letter_marks"} :
        \E k \in 1..Len(get(classification, key, <<>>)) :
            get(get(classification, key, <<>>)[k], "mark", <<>>) = NoneMark

\* the dictionary section_one_analysis returns when it has no audited result
section_one_default(explanation) ==
    [identified_coordinated_classes |-> <<>>,
     coordinated_classes_explanation |-> explanation,
     identical_marks |-> <<>>,
     one_letter_marks |-> <<>>,
     two_letter_marks |-> <<>>,
     similar_marks |-> <<>>,
     crowded_field |-> [is_crowded |-> FALSE, percentage |-> 0]]

\* how the oracle call of section_one_analysis ends: "json" a response holding
\* the JSON object raw_results, "no_choices" a response without choices,
\* "no_json" a content in which the pattern finds nothing, "bad_json" a match
\* that json.loads rejects, "error" the client raises
OracleOutcomes == {"json", "no_choices", "no_json", "bad_json", "error"}

section_one_analysis(mark, outcome, raw_results) ==
    IF outcome = "json" THEN consistency_check(mark, raw_results)
    ELSE IF outcome = "error" THEN section_one_default("Error occurred during analysis")
    ELSE section_one_default("Unable to identify coordinated classes")

(***************************************************************************)
(* utils/ml_utils.py: component_consistency_check                          *)
(***************************************************************************)
\* the statement  if key not in dict: dict[key] = default
setdefault(dict, key, default) ==
    [k \in DOMAIN dict \cup {key} |-> IF k \in DOMAIN dict THEN dict[k] ELSE default]

required_fields ==
    <<"mark", "owner", "goods_services", "status", "class", "class_match",
      "goods_services_match">>

\* the default the loop over required_fields gives an absent field
required_field_default(field) ==
    IF field = "class_match" \/ field = "goods_services_match" THEN FALSE
    ELSE "Unknown"

\* a variant of repair_mark_entry that sets an absent flag
repair_mark_entry_flags_set(mark_entry, fields) ==
    [field \in DOMAIN mark_entry \cup Range(fields) |->
        IF field \in DOMAIN mark_entry THEN mark_entry[field]
        ELSE IF field = "class_match" \/ field = "goods_services_match" THEN TRUE
        ELSE "Unknown"]

\* for field in required_fields: if field not in mark_entry: ...
RECURSIVE repair_mark_entry(_, _)
repair_mark_entry(mark_entry, fields) ==
    IF fields = <<>> THEN mark_entry
    ELSE repair_mark_entry(
             setdefault(mark_entry, Head(fields), required_field_default(Head(fields))),
             Tail(fields))

\* the body of  for i, component in enumerate(...), with position = i + 1
repair_component(component, position) ==
    LET named == setdefault(component, "component", "Component " \o ToString(position))
        listed == setdefault(named, "marks", <<>>)
        graded == setdefault(listed, "distinctiveness", "DESCRIPTIVE")
    IN  [graded EXCEPT !["marks"] =
            [j \in 1..Len(@) |-> repair_mark_entry(@[j], required_fields)]]

UnableToDetermine == "Unable to determine crowded field status"

crowded_field_default ==
    [total_hits |-> 0,
     distinct_owner_percentage |-> 0,
     is_crowded |-> FALSE,
     explanation |-> UnableToDetermine]

\* the else branch: each absent member of crowded_field gets its default
repair_crowded_field(crowded_field) ==
    [member \in DOMAIN crowded_field \cup DOMAIN crowded_field_default |->
        IF member \in DOMAIN crowded_field THEN crowded_field[member]
        ELSE crowded_field_default[member]]

\* component_consistency_check raises where it applies  in  to null
component_consistency_check_raises(results) ==
    "crowded_field" \in DOMAIN results /\ results["crowded_field"] = NoneObject

component_consistency_check(mark, results) ==
    LET classed == setdefault(results, "identified_coordinated_classes", <<>>)
        explained == setdefault(classed, "coordinated_classes_explanation",
                                "No coordinated classes identified")
        listed == setdefault(explained, "components", <<>>)
        repaired == [listed EXCEPT !["components"] =
                        [position \in 1..Len(@) |-> repair_component(@[position], position)]]
    IN  IF "crowded_field" \notin DOMAIN repaired
        THEN setdefault(repaired, "crowded_field", crowded_field_default)
        ELSE [repaired EXCEPT !["crowded_field"] = repair_crowded_field(@)]

\* results.copy() is shallow: the components and the crowded_field of the
\* argument are the objects the function repairs
results_after_component_consistency_check(results, corrected_results) ==
    [key \in DOMAIN results |-> corrected_results[key]]

(***************************************************************************)
(* services/enhanced_phonetic_service.py                                   *)
(* services/enhanced_comparison_service.py                                 *)
(***************************************************************************)
\* is_llm_prominent_phonetic_match(..., threshold: int = 90, ...) and
\* compare_trademarks_enhanced(..., phonetic_threshold: int = 90)
ProminentThreshold == 90

\* re.findall(r"\w+", mark): the maximal runs of word characters, in order
RECURSIVE findall_words(_)
findall_words(mark) ==
    LET inside == {k \in 1..Len(mark) : IsWordChar(mark[k])}
    IN  IF inside = {} THEN <<>>
        ELSE LET from == Least(inside)
                 stops == {k \in from..Len(mark) : ~IsWordChar(mark[k])}
                 upto == IF stops = {} THEN Len(mark) ELSE Least(stops) - 1
             IN  <<SubSeq(mark, from, upto)>>
                 \o findall_words(SubSeq(mark, upto + 1, Len(mark)))

\* max(tokens, key=len): the first token of the greatest length
longest_token(tokens) ==
    tokens[Least({k \in 1..Len(tokens) :
                    \A other \in 1..Len(tokens) : Len(tokens[other]) <= Len(tokens[k])})]

FallbackStrategies == {"last", "first", "longest"}

get_prominent_element(mark, strategy) ==
    LET tokens == findall_words(mark)
    IN  IF tokens = <<>> THEN lower(mark)
        ELSE IF strategy = "first" THEN lower(tokens[1])
        ELSE IF strategy = "longest" THEN lower(longest_token(tokens))
        ELSE lower(tokens[Len(tokens)])

\* str.strip('"')
strip_quotes(s) ==
    LET kept == {k \in 1..Len(s) : s[k] # "\""}
    IN  IF kept = {} THEN <<>> ELSE SubSeq(s, Least(kept), Greatest(kept))

\* How one call of the prominent-element oracle ends: no endpoint or key is
\* configured; the client cannot be built (raised outside the try block);
\* chat.completions.create raises; the reply has no choice or no content;
\* the reply has a content
OracleReplyKinds ==
    {"unavailable", "client_error", "create_error", "no_content", "content"}

\* detect_prominent_component_with_llm(mark) when the oracle call ends as reply
detect_prominent_component_with_llm(reply) ==
    IF reply.kind = "unavailable" THEN Returned(<<>>)
    ELSE IF reply.kind = "client_error" THEN Raised("OpenAIError")
    ELSE IF reply.kind \in {"create_error", "no_content"} THEN Returned(<<>>)
    ELSE Returned(lower(strip_quotes(strip(
             Head(split_on(strip(reply.content), "\n"))))))

\* lines 138-151 of is_llm_prominent_phonetic_match: the two keys, the oracle's
\* where it gave one and nothing was raised, the fallback's elsewhere
prominent_keys(name1, name2, fallback_strategy, reply1, reply2) ==
    LET detected1 == detect_prominent_component_with_llm(reply1)
        detected2 == detect_prominent_component_with_llm(reply2)
        raised == detected1.kind = "raised" \/ detected2.kind = "raised"
        key1 == IF raised THEN <<>> ELSE detected1.verdict
        key2 == IF raised THEN <<>> ELSE detected2.verdict
    IN  <<IF key1 = <<>> THEN get_prominent_element(name1, fallback_strategy) ELSE key1,
          IF key2 = <<>> THEN get_prominent_element(name2, fallback_strategy) ELSE key2>>

\* the Python value of  code1 and code1 == code2
exact_match_value(code1, code2) ==
    IF code1 = <<>> THEN "''" ELSE IF code1 = code2 THEN "True" ELSE "False"

\* a variant of is_llm_prominent_phonetic_match that keeps the oracle's keys,
\* empty ones included
is_llm_prominent_phonetic_match_without_fallback(name1, name2, threshold, fallback_strategy, reply) ==
    LET keys == prominent_keys(<<>>, <<>>, fallback_strategy, reply.first, reply.second)
        code1 == reply.metaphone[keys[1]]
        code2 == reply.metaphone[keys[2]]
    IN  [is_match |-> (code1 # <<>> /\ code1 = code2) \/ reply.fuzzy_score >= threshold,
         prominent_element1 |-> keys[1],
         prominent_element2 |-> keys[2],
         phonetic_code1 |-> code1,
         phonetic_code2 |-> code2,
         exact_match |-> exact_match_value(code1, code2),
         fuzzy_score |-> reply.fuzzy_score,
         threshold |-> threshold,
         used_llm |-> keys[1] # <<>> /\ keys[2] # <<>>]

\* reply holds what the collaborators answer during the call: the oracle's two
\* replies, phonetics.metaphone as a function of its argument, and fuzz.ratio
is_llm_prominent_phonetic_match(name1, name2, threshold, fallback_strategy, reply) ==
    LET keys == prominent_keys(name1, name2, fallback_strategy, reply.first, reply.second)
        code1 == reply.metaphone[keys[1]]
        code2 == reply.metaphone[keys[2]]
    IN  [is_match |-> (code1 # <<>> /\ code1 = code2) \/ reply.fuzzy_score >= threshold,
         prominent_element1 |-> keys[1],
         prominent_element2 |-> keys[2],
         phonetic_code1 |-> code1,
         phonetic_code2 |-> code2,
         exact_match |-> exact_match_value(code1, code2),
         fuzzy_score |-> reply.fuzzy_score,
         threshold |-> threshold,
         used_llm |-> keys[1] # <<>> /\ keys[2] # <<>>]

\* str(c) of a class number
RECURSIVE str(_)
str(c) ==
    IF c < 10 THEN <<Digits[c + 1]>>
    ELSE str(c \div 10) \o <<Digits[(c % 10) + 1]>>

\* any(str(c) in str(proposed_class) for c in existing_class) if existing_class
\* else False
class_overlap(existing_class, proposed_class) ==
    \E k \in 1..Len(existing_class) : contains(str(existing_class[k]), proposed_class)

goods_overlap(existing_goods, proposed_goods_services) ==
    /\ existing_goods # <<>>
    /\ proposed_goods_services # <<>>
    /\ \E word \in Range(split(lower(existing_goods))) :
           contains(word, lower(proposed_goods_services))

enhanced_conflict_grade(is_match, conditions_met) ==
    IF is_match /\ conditions_met = 1 THEN "Name-Match"
    ELSE IF conditions_met = 3 THEN "High"
    ELSE IF conditions_met = 2 THEN "Moderate"
    ELSE IF conditions_met = 1 THEN "Low"
    ELSE "No Conflict"

\* the lines of the reasoning text, each by what it says
generate_conflict_reasoning(phonetic_analysis, classes, goods, conflict_grade) ==
    <<[line |-> IF phonetic_analysis.used_llm THEN "LLM identified prominent elements"
                ELSE "Fallback strategy identified prominent elements",
       elements |-> <<phonetic_analysis.prominent_element1,
                      phonetic_analysis.prominent_element2>>]>>
    \o <<IF phonetic_analysis.exact_match = "True"
          THEN [line |-> "Phonetic codes match exactly"]
          ELSE [line |-> "Phonetic similarity score",
                score |-> phonetic_analysis.fuzzy_score,
                threshold |-> phonetic_analysis.threshold]>>
    \o (IF classes THEN <<[line |-> "International classes overlap"]>> ELSE <<>>)
    \o (IF goods THEN <<[line |-> "Goods/Services overlap"]>> ELSE <<>>)
    \o <<[line |-> "Conflict Grade", grade |-> conflict_grade]>>

compare_trademarks_enhanced(existing_trademark, proposed_name, proposed_class, proposed_goods_services, reply) ==
    LET existing_name == strip(get(existing_trademark, "trademark_name", <<>>))
        existing_class == get(existing_trademark, "international_class_number", <<>>)
        existing_goods == strip(get(existing_trademark, "goods_services", <<>>))
        phonetic_analysis ==
            is_llm_prominent_phonetic_match(existing_name, proposed_name,
                ProminentThreshold, "last", reply)
        classes == class_overlap(existing_class, proposed_class)
        goods == goods_overlap(existing_goods, proposed_goods_services)
        conditions_met ==
            BoolInt(phonetic_analysis.is_match) + BoolInt(classes) + BoolInt(goods)
        conflict_grade == enhanced_conflict_grade(phonetic_analysis.is_match, conditions_met)
    IN  [existing_trademark |-> existing_trademark,
         proposed_name |-> proposed_name,
         proposed_class |-> proposed_class,
         proposed_goods_services |-> proposed_goods_services,
         phonetic_analysis |-> phonetic_analysis,
         class_overlap |-> classes,
         goods_overlap |-> goods,
         conditions_met |-> conditions_met,
         conflict_grade |-> conflict_grade,
         reasoning |-> generate_conflict_reasoning(
                           phonetic_analysis, classes, goods, conflict_grade)]

(***************************************************************************)
(* utils/validation.py and services/comparison_service.py:                 *)
(* validate_trademark_relevance, called on a list of conflicts             *)
(***************************************************************************)
\* the stop words of the nested is_similar_goods_services
stop_words ==
    {<<"a","n","d">>, <<"o","r">>, <<"t","h","e">>, <<"a">>, <<"a","n">>, <<"i","n">>,
     <<"o","n">>, <<"f","o","r">>, <<"o","f">>, <<"t","o">>, <<"w","i","t","h">>}

\* validation.py, the is_similar_goods_services nested in
\* validate_trademark_relevance: equal, one within the other, or more than
\* 30% of the keywords of the shorter keyword set shared
validate_is_similar_goods_services(existing_goods, proposed_goods) ==
    LET existing_lower == lower(existing_goods)
        proposed_lower == lower(proposed_goods)
        existing_keywords == Range(findall_words(existing_lower)) \ stop_words
        proposed_keywords == Range(findall_words(proposed_lower)) \ stop_words
        overlap == Cardinality(existing_keywords \cap proposed_keywords)
        fewest == IF Cardinality(existing_keywords) < Cardinality(proposed_keywords)
                  THEN Cardinality(existing_keywords)
                  ELSE Cardinality(proposed_keywords)
    IN  \/ existing_lower = proposed_lower
        \/ contains(existing_lower, proposed_lower)
        \/ contains(proposed_lower, existing_lower)
        \/ /\ existing_keywords # {}
           /\ proposed_keywords # {}
           /\ 10 * overlap > 3 * fewest

\* a variant of the loop that counts as excluded the conflicts without a
\* goods_services field
RECURSIVE relevance_loop_excludes_fieldless(_, _, _, _)
relevance_loop_excludes_fieldless(conflicts_array, similar, relevant_conflicts, excluded_count) ==
    IF conflicts_array = <<>>
    THEN [relevant_conflicts |-> relevant_conflicts, excluded_count |-> excluded_count]
    ELSE IF "goods_services" \in DOMAIN Head(conflicts_array) /\ Head(similar)
         THEN relevance_loop_excludes_fieldless(Tail(conflicts_array), Tail(similar),
                  Append(relevant_conflicts, Head(conflicts_array)), excluded_count)
         ELSE relevance_loop_excludes_fieldless(Tail(conflicts_array), Tail(similar),
                  relevant_conflicts, excluded_count + 1)

\* for conflict in conflicts: the i-th entry of similar is what
\* is_similar_goods_services returns for the i-th conflict
RECURSIVE relevance_loop(_, _, _, _)
relevance_loop(conflicts_array, similar, relevant_conflicts, excluded_count) ==
    IF conflicts_array = <<>>
    THEN [relevant_conflicts |-> relevant_conflicts, excluded_count |-> excluded_count]
    ELSE IF "goods_services" \in DOMAIN Head(conflicts_array)
         THEN IF Head(similar)
              THEN relevance_loop(Tail(conflicts_array), Tail(similar),
                       Append(relevant_conflicts, Head(conflicts_array)), excluded_count)
              ELSE relevance_loop(Tail(conflicts_array), Tail(similar),
                       relevant_conflicts, excluded_count + 1)
         ELSE relevance_loop(Tail(conflicts_array), Tail(similar),
                  Append(relevant_conflicts, Head(conflicts_array)), excluded_count)

\* the conflicts whose goods_services is the null of JSON: .lower() and
\* re.sub raise on it
null_goods(conflicts_array) ==
    {k \in 1..Len(conflicts_array) :
        /\ "goods_services" \in DOMAIN conflicts_array[k]
        /\ conflicts_array[k].goods_services = NoneMark}

\* validation.py lines 116-211, on a list
validate_trademark_relevance(conflicts_array, proposed_goods_services) ==
    IF null_goods(conflicts_array) # {}
    THEN Raised("AttributeError")
    ELSE Returned(relevance_loop(conflicts_array,
             [k \in 1..Len(conflicts_array) |->
                 IF "goods_services" \in DOMAIN conflicts_array[k]
                 THEN validate_is_similar_goods_services(
                          conflicts_array[k].goods_services, proposed_goods_services)
                 ELSE FALSE],
             <<>>, 0))

\* comparison_service.py lines 247-274, on a list: is_similar_goods_services
\* of validation.py judges each conflict, and what it or its embedding model
\* raises leaves the function
comparison_validate_trademark_relevance(conflicts_array, proposed_goods_services, scores) ==
    IF null_goods(conflicts_array) # {}
    THEN Raised("TypeError")
    ELSE IF \E k \in 1..Len(conflicts_array) :
               "goods_services" \in DOMAIN conflicts_array[k] /\ scores[k].failed
    THEN Raised("CollaboratorError")
    ELSE Returned(relevance_loop(conflicts_array,
             [k \in 1..Len(conflicts_array) |->
                 IF "goods_services" \in DOMAIN conflicts_array[k]
                 THEN is_similar_goods_services(
                          is_similar_goods_services_normalize_text(
                              conflicts_array[k].goods_services),
                          is_similar_goods_services_normalize_text(proposed_goods_services),
                          scores[k].score)
                 ELSE FALSE],
             <<>>, 0))

Colorgrip == <<"C","o","l","o","r","g","r","i","p">>

ColorGrip == <<"C","o","l","o","r","G","r","i","p">>

Registered == <<"R","e","g","i","s","t","e","r","e","d">>

(***************************************************************************)
(* Inputs of a single comparison                                           *)
(***************************************************************************)
CandidateNames ==
    {<<"C","o","l","o","r","G","r","i","p">>,
     <<"C","o","l","o","r","g","r","i","p"," ","M","a","x">>,
     <<"Z","e","s","t">>}

ProposedNames ==
    {<<"C","o","l","o","r","g","r","i","p">>,
     <<" ","C","O","L","O","R","G","R","I","P"," ">>,
     <<"K","o","l","o","r"," ","G","r","i","p">>,
     <<>>}

\* three live statuses would not add a case: one plain, one that holds
\* "cancel" but none of the three keywords
LiveStatuses ==
    {<<"R","e","g","i","s","t","e","r","e","d">>,
     <<"P","e","n","d","i","n","g"," ","c","a","n","c","e","l","l","a","t","i","o","n">>}

DeadStatuses ==
    {<<" ","C","A","N","C","E","L","L","E","D"," ">>,
     <<"A","b","a","n","d","o","n","e","d"," ","(","2","0","1","9",")">>,
     <<"R","e","g","."," ","e","x","p","i","r","e","d">>}

Statuses == LiveStatuses \cup DeadStatuses

CandidateClasses == {<<3>>, <<25>>, <<>>}

WellFormedClassStrings ==
    {<<"3">>, <<" ","3"," ",","," ","2","5">>, <<"3","5">>}

\* the empty string, a trailing comma, a doubled comma, text that is no number
MalformedClassStrings ==
    {<<>>, <<"3",",">>, <<"3",",",",","2","5">>, <<"a","b","c">>}

ProposedClassStrings == WellFormedClassStrings \cup MalformedClassStrings

Candidate(name, status, classes, goods, serial, design) ==
    [trademark_name |-> name,
     status |-> status,
     international_class_number |-> classes,
     goods_services |-> goods,
     serial_number |-> serial,
     design_phrase |-> design]

\* every combination of name, status, classes and goods for a word mark, and
\* one mark for each other kind of design phrase (a phrase, the empty default)
Candidates ==
    {Candidate(n, s, c, g, "SN1", NoDesignPhrase) :
        n \in CandidateNames, s \in Statuses, c \in CandidateClasses, g \in CandidateGoods}
    \cup
    {Candidate(<<"C","o","l","o","r","G","r","i","p">>,
               <<"R","e","g","i","s","t","e","r","e","d">>,
               <<3>>, <<"h","a","i","r"," ","c","o","l","o","r">>, "SN1", d) :
        d \in {"THE MARK CONSISTS OF A STYLIZED LEAF", ""}}

\* The collaborators' answers during one compare_trademarks call.  fuzz.ratio of
\* the first two words is asked for only when both names have two words.
CompareAnswers(existing_name, name) ==
    [failed : {FALSE},
     name_similarity :
        {SEMANTIC_SIMILARITY_THRESHOLD - 1, SEMANTIC_SIMILARITY_THRESHOLD},
     name_ratio :
        {PHONETIC_SIMILARITY_THRESHOLD - 1, PHONETIC_SIMILARITY_THRESHOLD},
     first_words_ratio :
        IF first_words_compared(existing_name, name)
        THEN {PHONETIC_SIMILARITY_THRESHOLD - 1, PHONETIC_SIMILARITY_THRESHOLD}
        ELSE {0},
     goods_similarity : {GoodsOverlapThreshold - 1, GoodsOverlapThreshold}]

\* the embedding collaborator raises during the call
CompareFailure ==
    [failed |-> TRUE, name_similarity |-> 0, name_ratio |-> 0,
     first_words_ratio |-> 0, goods_similarity |-> 0]

\* The collaborators' answers during one assess_conflict call
AssessAnswers ==
    [failed : {FALSE},
     codes_equal : BOOLEAN,
     semantic_similarity :
        {NameMatchSemanticThreshold - 1, NameMatchSemanticThreshold},
     string_similarity :
        {NameMatchStringThreshold - 1, NameMatchStringThreshold},
     partial_ratio : {PartialRatioThreshold - 1, PartialRatioThreshold}]

AssessFailure ==
    [failed |-> TRUE, codes_equal |-> FALSE, semantic_similarity |-> 0,
     string_similarity |-> 0, partial_ratio |-> 0]

\* a dead-status call of assess_conflict asks no collaborator
NoAnswers == [failed |-> FALSE]

NoResult == [kind |-> "none"]

(***************************************************************************)
(* Inputs of an audit                                                      *)
(***************************************************************************)
\* the most entries one oracle response holds, over all its buckets
MaxEntries == 2

Acme == <<"A","c","m","e">>

\* marks at distance 0, 1, 1, 2, 3 and 4 of Acme
EntryMarks ==
    {Acme,
     <<"A","c","m","m","e">>,
     <<"A","k","m","e">>,
     <<"A","k","k","m","e">>,
     <<"A","C","M","E">>,
     <<"Z","e","s","t">>}

\* the oracle's mark entries; the last one has no "mark" field
OracleEntries ==
    {[mark |-> m, owner |-> "Owner"] : m \in EntryMarks} \cup {[owner |-> "Owner"]}

\* the bucket keys of the response format section_one_analysis asks for
FormatBuckets ==
    {"identical_marks", "one_letter_marks", "two_letter_marks", "similar_marks"}

\* the bucket keys consistency_check reads
AuditedBuckets == {"identical_marks", "one_two_letter_marks", "similar_marks"}

\* the keys of one response: the format asked for, the keys consistency_check
\* reads, a single bucket, no bucket
BucketKeySets == {FormatBuckets, AuditedBuckets, {"identical_marks"}, {}}

\* the entries filed under key, in the order the response lists them
bucket_of(placed, key) ==
    LET at == SelectSeq([i \in 1..Len(placed) |-> i], LAMBDA i : placed[i][1] = key)
    IN  [i \in 1..Len(at) |-> placed[at[i]][2]]

\* every response with the keys  keys  and at most MaxEntries entries
Classifications(keys) ==
    {[key \in keys |-> bucket_of(placed, key)] :
        placed \in UNION {[1..n -> keys \X OracleEntries] : n \in 0..MaxEntries}}

NoClassification == [none |-> <<>>]

(***************************************************************************)
(* Inputs of a component audit                                             *)
(***************************************************************************)
FullMarkEntry ==
    [mark |-> "ACME", owner |-> "Acme Corp", goods_services |-> "Soap",
     status |-> "LIVE", class |-> "3", class_match |-> TRUE,
     goods_services_match |-> TRUE]

\* the fields the oracle gives a mark entry: all, none, the mark alone, the two
\* flags alone, all but the two flags
MarkEntryFields ==
    {Range(required_fields), {}, {"mark"}, {"class_match", "goods_services_match"},
     {"mark", "owner", "goods_services", "status", "class"}}

ComponentMarkEntries ==
    {[field \in fields |-> FullMarkEntry[field]] : fields \in MarkEntryFields}

ComponentMarkLists ==
    {<<>>} \cup {<<entry>> : entry \in ComponentMarkEntries}
    \cup {<<FullMarkEntry, [field \in {"mark"} |-> "ACME"]>>}

FullComponent(marks) ==
    [component |-> "ACME", marks |-> marks, distinctiveness |-> "ARBITRARY"]

\* the keys the oracle gives a component
ComponentKeys ==
    {{"component", "marks", "distinctiveness"}, {"marks"},
     {"component", "distinctiveness"}, {}}

OracleComponents ==
    {[key \in keys |-> FullComponent(marks)[key]] :
        keys \in ComponentKeys, marks \in ComponentMarkLists}

ComponentLists ==
    {<<>>} \cup {<<component>> : component \in OracleComponents}
    \cup {<<FullComponent(<<>>), component>> : component \in OracleComponents}

FullCrowdedField ==
    [total_hits |-> 12, distinct_owner_percentage |-> 75, is_crowded |-> TRUE,
     explanation |-> "Many owners"]

\* the members the oracle gives crowded_field
CrowdedFieldMembers ==
    {DOMAIN FullCrowdedField, {}, {"total_hits", "is_crowded"},
     {"distinct_owner_percentage", "explanation"}}

\* crowded_field of a response: an object, or null
CrowdedFields ==
    {[member \in members |-> FullCrowdedField[member]] : members \in CrowdedFieldMembers}
    \cup {NoneObject}

ComponentResultKeys ==
    {{"identified_coordinated_classes", "coordinated_classes_explanation",
      "components", "crowded_field"},
     {"components", "crowded_field"}, {"components"}, {"crowded_field"}, {}}

FullComponentResults(components, crowded_field) ==
    [identified_coordinated_classes |-> <<"5">>,
     coordinated_classes_explanation |-> "Class 5 is coordinated",
     components |-> components,
     crowded_field |-> crowded_field]

ComponentResults ==
    {[key \in keys |-> FullComponentResults(components, crowded_field)[key]] :
        keys \in ComponentResultKeys, components \in ComponentLists,
        crowded_field \in CrowdedFields}

\* classifications with one entry: a mark, no mark, a null mark
NullableEntries ==
    {[mark |-> Acme, owner |-> "Owner"], [owner |-> "Owner"],
     [mark |-> NoneMark, owner |-> "Owner"]}

NullableClassifications ==
    {[key \in {bucket} |-> <<entry>>] :
        bucket \in AuditedBuckets, entry \in NullableEntries}

(***************************************************************************)
(* Inputs of an analysis run (main.py, the Check Conflicts handler)        *)
(***************************************************************************)
\* the most candidates parse_trademark_details returns in the model
MaxCandidates == 2

Serials == <<"SN1", "SN2", "SN3", "SN4">>

\* name, status and classes of the candidates of a run
RunProfiles ==
    {<<ColorGrip, Registered, <<3>>>>,
     <<ColorGrip, Registered, <<25>>>>,
     <<ColorGrip, Registered, <<>>>>,
     <<<<"Z","e","s","t">>, Registered, <<25>>>>,
     <<<<"Z","e","s","t">>, <<"A","b","a","n","d","o","n","e","d"," ","(","2","0","1","9",")">>, <<3>>>>}

\* the candidate lists of a run: the i-th candidate has the i-th serial number
CandidateLists ==
    {[i \in 1..Len(profiles) |->
        Candidate(profiles[i][1], profiles[i][2], profiles[i][3],
                  <<"h","a","i","r"," ","c","o","l","o","r">>, Serials[i], NoDesignPhrase)] :
        profiles \in UNION {[1..n -> RunProfiles] : n \in 0..MaxCandidates}}

\* the class strings extraction yields: digits separated by commas, or nothing
RunClassStrings == {<<"3">>, <<"3","5">>, <<>>}

(***************************************************************************)
(* Inputs of a call of the enhanced grader                                 *)
(***************************************************************************)
EnhancedCandidates ==
    {Candidate(n, s, c, <<"h","a","i","r"," ","c","o","l","o","r">>, "SN1", NoDesignPhrase) :
        n \in {ColorGrip, <<"C","o","l","o","r","g","r","i","p"," ","M","a","x">>},
        s \in {Registered, <<"A","b","a","n","d","o","n","e","d"," ","(","2","0","1","9",")">>},
        c \in {<<3>>, <<>>}}

EnhancedNames ==
    {Colorgrip, <<"K","o","l","o","r"," ","G","r","i","p">>, <<>>}

EnhancedClassStrings == {<<"3">>, <<"3","5">>}

EnhancedGoods ==
    {<<"p","e","r","m","a","n","e","n","t"," ","h","a","i","r"," ","c","o","l","o","r">>,
     <<>>}

\* what the oracle writes when it answers: nothing, or a quoted element
\* followed by a second line
OracleContents ==
    {<<>>, <<"\"","G","r","i","p","\"","\n","I","t"," ","i","s">>}

OracleReplies ==
    {[kind |-> k, content |-> <<>>] : k \in OracleReplyKinds \ {"content"}}
    \cup {[kind |-> "content", content |-> c] : c \in OracleContents}

MetaphoneCodes == {<<>>, <<"K","R","P">>, <<"M","K","S">>}

\* phonetics.metaphone on the keys of a call: a function of its argument, the
\* empty code for the empty key
metaphone_answers(keys) ==
    {codes \in [{keys[1], keys[2], <<>>} -> MetaphoneCodes] : codes[<<>>] = <<>>}

\* the Python value of  code or key
code_or_key(code, key) == IF code # <<>> THEN code ELSE key

\* rapidfuzz fuzz.ratio(s1, s2): 100 on equal texts (the library's releases
\* differ on two empty texts: 0 or 100), else a score on either side of the
\* threshold
ratio_answers(s1, s2, threshold) ==
    IF s1 = s2 THEN (IF s1 = <<>> THEN {0, 100} ELSE {100})
    ELSE {threshold - 1, threshold}

\* what the collaborators can answer during one call of
\* is_llm_prominent_phonetic_match(name1, name2, fallback_strategy=strategy)
EnhancedReplies(name1, name2, strategy) ==
    UNION {UNION {UNION {{[first |-> reply1, second |-> reply2,
                           metaphone |-> codes, fuzzy_score |-> score] :
                             score \in ratio_answers(code_or_key(codes[keys[1]], keys[1]),
                                                     code_or_key(codes[keys[2]], keys[2]),
                                                     ProminentThreshold)} :
                         codes \in metaphone_answers(keys)} :
                  keys \in {prominent_keys(name1, name2, strategy, reply1, reply2)}} :
           reply1 \in OracleReplies, reply2 \in OracleReplies}

(***************************************************************************)
(* State                                                                   *)
(***************************************************************************)
VARIABLES
    pc,                       \* where the modelled call or handler stands
    proposed_name,            \* the proposed mark
    proposed_class,
    proposed_goods_services,
    existing_trademark,       \* the candidate of a single comparison
    answers,                  \* what the collaborators answered during the call
    result,                   \* what the call returned or raised
    mark,                     \* the proposed mark of an audit
    raw_results,              \* the oracle's classification
    oracle_outcome,           \* how the oracle call of section_one_analysis ended
    corrected_results,        \* what consistency_check / section_one_analysis returned
    existing_trademarks,      \* the candidates parsed from the document
    class_list,               \* list_conversion(proposed_class)
    nfiltered_list,           \* the candidates with a class of class_list
    unsame_class_list,        \* the other candidates
    graded_same,              \* candidates done in the first grading loop
    graded_unsame,            \* candidates done in the second grading loop
    conflicts,                \* every value the handler's local  conflict  took
    high_conflicts, moderate_conflicts, low_conflicts, Name_Matchs, no_conflicts,
    left_text,                \* the first argument of an evaluator under test
    right_text,               \* its second argument
    evaluation,               \* what the evaluator computed and returned
    fallback_strategy         \* the heuristic is_llm_prominent_phonetic_match is given

callVars ==
    <<proposed_name, proposed_class, proposed_goods_services,
      existing_trademark, answers, result>>

auditVars == <<mark, raw_results, oracle_outcome, corrected_results>>

runVars ==
    <<existing_trademarks, class_list, nfiltered_list, unsame_class_list,
      graded_same, graded_unsame, conflicts, high_conflicts, moderate_conflicts,
      low_conflicts, Name_Matchs, no_conflicts>>

evalVars == <<left_text, right_text, evaluation>>

extVars == <<evalVars, fallback_strategy>>

vars == <<pc, callVars, auditVars, runVars, extVars>>

\* no single comparison is under way
CallIdle ==
    /\ existing_trademark = [none |-> TRUE]
    /\ answers = NoAnswers
    /\ result = NoResult

\* no audit is under way
AuditIdle ==
    /\ mark = <<>>
    /\ raw_results = NoClassification
    /\ oracle_outcome = "none"
    /\ corrected_results = NoResult

\* the handler's lists before the handler runs
RunLists ==
    /\ class_list = <<>>
    /\ nfiltered_list = <<>>
    /\ unsame_class_list = <<>>
    /\ graded_same = 0
    /\ graded_unsame = 0
    /\ conflicts = <<>>
    /\ high_conflicts = <<>>
    /\ moderate_conflicts = <<>>
    /\ low_conflicts = <<>>
    /\ Name_Matchs = <<>>
    /\ no_conflicts = <<>>

\* no analysis run is under way
RunIdle == existing_trademarks = <<>> /\ RunLists

\* no evaluator is under test
EvalIdle ==
    /\ left_text = <<>>
    /\ right_text = <<>>
    /\ evaluation = NoResult

\* no call of is_llm_prominent_phonetic_match is under way
EnhancedIdle == fallback_strategy = "none"

ExtIdle == EvalIdle /\ EnhancedIdle

(***************************************************************************)
(* Spec: one call of compare_trademarks or of assess_conflict              *)
(***************************************************************************)
Init ==
    /\ pc = "ready"
    /\ proposed_name \in ProposedNames
    /\ proposed_class \in ProposedClassStrings
    /\ proposed_goods_services \in ProposedGoods
    /\ existing_trademark \in Candidates
    /\ answers = NoAnswers
    /\ result = NoResult
    /\ AuditIdle
    /\ RunIdle
    /\ ExtIdle

CallCompareTrademarks ==
    /\ pc = "ready"
    /\ \E a \in CompareAnswers(existing_trademark.trademark_name, proposed_name)
                \cup {CompareFailure} :
        \* a call that raises on its first line asks no collaborator
        /\ answers' = IF proposed_classes_ok(proposed_class) THEN a ELSE NoAnswers
        /\ result' = compare_trademarks(existing_trademark, proposed_name,
                         proposed_class, proposed_goods_services, a)
    /\ pc' = "compared"
    /\ UNCHANGED <<proposed_name, proposed_class, proposed_goods_services,
                   existing_trademark, auditVars, runVars, extVars>>

CallAssessConflict ==
    /\ pc = "ready"
    /\ \E a \in AssessAnswers \cup {AssessFailure} :
        /\ answers' = IF status_is_dead(existing_trademark.status) THEN NoAnswers ELSE a
        /\ result' = assess_conflict(existing_trademark, proposed_name,
                         proposed_class, proposed_goods_services, a)
    /\ pc' = "assessed"
    /\ UNCHANGED <<proposed_name, proposed_class, proposed_goods_services,
                   existing_trademark, auditVars, runVars, extVars>>

Next == CallCompareTrademarks \/ CallAssessConflict

Spec == Init /\ [][Next]_vars

(***************************************************************************)
(* SpecAudit: one call of consistency_check or of section_one_analysis     *)
(***************************************************************************)
InitAudit ==
    /\ pc = "audit_ready"
    /\ mark = Acme
    /\ \E keys \in BucketKeySets : raw_results \in Classifications(keys)
    /\ oracle_outcome = "none"
    /\ corrected_results = NoResult
    /\ proposed_name = <<>>
    /\ proposed_class = <<>>
    /\ proposed_goods_services = <<>>
    /\ CallIdle
    /\ RunIdle
    /\ ExtIdle

CallConsistencyCheck ==
    /\ pc = "audit_ready"
    /\ IF consistency_check_raises(mark, raw_results)
       THEN /\ corrected_results' = Raised("TypeError")
            /\ pc' = "check_raised"
       ELSE /\ corrected_results' = consistency_check(mark, raw_results)
            /\ pc' = "checked"
    /\ UNCHANGED <<mark, raw_results, oracle_outcome, callVars, runVars, extVars>>

CallSectionOneAnalysis ==
    /\ pc = "audit_ready"
    /\ \E outcome \in OracleOutcomes :
        /\ oracle_outcome' = outcome
        /\ corrected_results' = section_one_analysis(mark, outcome, raw_results)
    /\ pc' = "analysed"
    /\ UNCHANGED <<mark, raw_results, callVars, runVars, extVars>>

NextAudit == CallConsistencyCheck \/ CallSectionOneAnalysis

SpecAudit == InitAudit /\ [][NextAudit]_vars

(***************************************************************************)
(* SpecRun: main.py, the Check Conflicts handler from list_conversion to   *)
(* the end of the two grading loops                                        *)
(***************************************************************************)
\* utils/formatting_utils.py list_conversion: the oracle is asked for the Python
\* list of the numbers of the string, and its answer goes through
\* ast.literal_eval; this is the list when the oracle does what it is asked
list_conversion(class_string) ==
    IF proposed_classes_ok(class_string) THEN proposed_classes(class_string) ELSE <<>>

\* any(number in class_list for number in class_numbers)
in_class_list(json_element, classes) ==
    Range(json_element.international_class_number) \cap Range(classes) # {}

InitRun ==
    /\ pc = "run_start"
    /\ proposed_name = Colorgrip
    /\ proposed_class \in RunClassStrings
    /\ proposed_goods_services =
           <<"p","e","r","m","a","n","e","n","t"," ","h","a","i","r"," ","c","o","l","o","r">>
    /\ existing_trademarks \in CandidateLists
    /\ RunLists
    /\ CallIdle
    /\ AuditIdle
    /\ ExtIdle

\* class_list = list_conversion(proposed_class); nothing catches what the
\* oracle call or ast.literal_eval raises
ListConversion ==
    /\ pc = "run_start"
    /\ \E oracle_answers \in BOOLEAN :
        IF oracle_answers
        THEN /\ class_list' = list_conversion(proposed_class)
             /\ pc' = "split"
        ELSE /\ class_list' = class_list
             /\ pc' = "crashed"
    /\ UNCHANGED <<callVars, auditVars, extVars, existing_trademarks, nfiltered_list,
                   unsame_class_list, graded_same, graded_unsame, conflicts,
                   high_conflicts, moderate_conflicts, low_conflicts, Name_Matchs,
                   no_conflicts>>

\* the loop that splits the candidates by class, and the five empty lists
SplitByClass ==
    /\ pc = "split"
    /\ nfiltered_list' =
           SelectSeq(existing_trademarks, LAMBDA e : in_class_list(e, class_list))
    /\ unsame_class_list' =
           SelectSeq(existing_trademarks, LAMBDA e : ~in_class_list(e, class_list))
    /\ high_conflicts' = <<>>
    /\ moderate_conflicts' = <<>>
    /\ low_conflicts' = <<>>
    /\ Name_Matchs' = <<>>
    /\ no_conflicts' = <<>>
    /\ pc' = "grading"
    /\ UNCHANGED <<callVars, auditVars, extVars, existing_trademarks, class_list,
                   graded_same, graded_unsame, conflicts>>

\* a variant of GradeSameClass in which the name of the first candidate graded
\* stays in use for the candidates graded after it
GradeSameClass_stale_name ==
    /\ pc = "grading"
    /\ graded_same < Len(nfiltered_list)
    /\ LET candidate == [nfiltered_list[graded_same + 1] EXCEPT
                            !.trademark_name = nfiltered_list[1].trademark_name] IN
       \E a \in CompareAnswers(candidate.trademark_name, proposed_name)
                \cup {CompareFailure} :
       \E call \in {compare_trademarks(candidate, proposed_name, proposed_class,
                                       proposed_goods_services, a)} :
         LET conflict == call.verdict
         IN  IF call.kind = "raised"
             THEN /\ pc' = "crashed"
                  /\ UNCHANGED <<graded_same, conflicts, high_conflicts, moderate_conflicts,
                                 low_conflicts, no_conflicts>>
             ELSE /\ pc' = pc
                  /\ graded_same' = graded_same + 1
                  /\ conflicts' = Append(conflicts, conflict)
                  /\ high_conflicts' =
                         IF conflict.conflict_grade = "High"
                         THEN Append(high_conflicts, conflict) ELSE high_conflicts
                  /\ moderate_conflicts' =
                         IF conflict.conflict_grade = "Moderate"
                         THEN Append(moderate_conflicts, conflict) ELSE moderate_conflicts
                  /\ low_conflicts' =
                         IF conflict.conflict_grade = "Low"
                         THEN Append(low_conflicts, conflict) ELSE low_conflicts
                  /\ no_conflicts' =
                         IF conflict.conflict_grade \notin {"High", "Moderate", "Low"}
                         THEN Append(no_conflicts, conflict) ELSE no_conflicts
    /\ UNCHANGED <<callVars, auditVars, extVars, existing_trademarks, class_list,
                   nfiltered_list, unsame_class_list, graded_unsame, Name_Matchs>>

\* one pass of  for existing_trademark in existing_trademarks  (the same-class
\* candidates)
GradeSameClass ==
    /\ pc = "grading"
    /\ graded_same < Len(nfiltered_list)
    /\ LET candidate == nfiltered_list[graded_same + 1] IN
       \E a \in CompareAnswers(candidate.trademark_name, proposed_name)
                \cup {CompareFailure} :
       \E call \in {compare_trademarks(candidate, proposed_name, proposed_class,
                                       proposed_goods_services, a)} :
         LET conflict == call.verdict
         IN  IF call.kind = "raised"
             THEN /\ pc' = "crashed"
                  /\ UNCHANGED <<graded_same, conflicts, high_conflicts, moderate_conflicts,
                                 low_conflicts, no_conflicts>>
             ELSE /\ pc' = pc
                  /\ graded_same' = graded_same + 1
                  /\ conflicts' = Append(conflicts, conflict)
                  /\ high_conflicts' =
                         IF conflict.conflict_grade = "High"
                         THEN Append(high_conflicts, conflict) ELSE high_conflicts
                  /\ moderate_conflicts' =
                         IF conflict.conflict_grade = "Moderate"
                         THEN Append(moderate_conflicts, conflict) ELSE moderate_conflicts
                  /\ low_conflicts' =
                         IF conflict.conflict_grade = "Low"
                         THEN Append(low_conflicts, conflict) ELSE low_conflicts
                  /\ no_conflicts' =
                         IF conflict.conflict_grade \notin {"High", "Moderate", "Low"}
                         THEN Append(no_conflicts, conflict) ELSE no_conflicts
    /\ UNCHANGED <<callVars, auditVars, extVars, existing_trademarks, class_list,
                   nfiltered_list, unsame_class_list, graded_unsame, Name_Matchs>>

\* one pass of  for existing_trademarks in existing_trademarks_unsame
GradeOtherClass ==
    /\ pc = "grading"
    /\ graded_same = Len(nfiltered_list)
    /\ graded_unsame < Len(unsame_class_list)
    /\ LET candidate == unsame_class_list[graded_unsame + 1] IN
       IF candidate.international_class_number # <<>>
       THEN \E a \in AssessAnswers \cup {AssessFailure} :
            \E call \in {assess_conflict(candidate, proposed_name, proposed_class,
                                         proposed_goods_services, a)} :
              LET conflict == call.verdict
              IN  IF call.kind = "raised"
                  THEN /\ pc' = "crashed"
                       /\ UNCHANGED <<graded_unsame, conflicts, Name_Matchs>>
                  ELSE /\ pc' = pc
                       /\ graded_unsame' = graded_unsame + 1
                       /\ conflicts' = Append(conflicts, conflict)
                       /\ Name_Matchs' =
                              IF conflict.conflict_grade = "Name-Match"
                              THEN Append(Name_Matchs, conflict) ELSE Name_Matchs
       ELSE /\ pc' = pc
            /\ graded_unsame' = graded_unsame + 1
            /\ UNCHANGED <<conflicts, Name_Matchs>>
    /\ UNCHANGED <<callVars, auditVars, extVars, existing_trademarks, class_list,
                   nfiltered_list, unsame_class_list, graded_same, high_conflicts,
                   moderate_conflicts, low_conflicts, no_conflicts>>

\* both loops are over: the handler goes on to report the lists
ReportGrades ==
    /\ pc = "grading"
    /\ graded_same = Len(nfiltered_list)
    /\ graded_unsame = Len(unsame_class_list)
    /\ pc' = "done"
    /\ UNCHANGED <<callVars, auditVars, runVars, extVars>>

NextRun ==
    \/ ListConversion
    \/ SplitByClass
    \/ GradeSameClass
    \/ GradeOtherClass
    \/ ReportGrades

SpecRun == InitRun /\ [][NextRun]_vars

(***************************************************************************)
(* SpecIsolated: the runs of the handler over two candidate profiles, in   *)
(* every order and with repetitions, graded by the same loops              *)
(***************************************************************************)
\* a live homonym and a dead mark of another name, both of class 3: graded by
\* compare_trademarks when class 3 is proposed and by assess_conflict otherwise
IsolatedProfiles ==
    {<<ColorGrip, Registered, <<3>>>>,
     <<<<"Z","e","s","t">>, <<"A","b","a","n","d","o","n","e","d"," ","(","2","0","1","9",")">>, <<3>>>>}

IsolatedCandidateLists ==
    {candidates \in CandidateLists :
        \A i \in DOMAIN candidates :
            <<candidates[i].trademark_name, candidates[i].status,
              candidates[i].international_class_number>> \in IsolatedProfiles}

InitIsolated ==
    /\ pc = "run_start"
    /\ proposed_name = Colorgrip
    /\ proposed_class \in RunClassStrings
    /\ proposed_goods_services =
           <<"p","e","r","m","a","n","e","n","t"," ","h","a","i","r"," ","c","o","l","o","r">>
    /\ existing_trademarks \in IsolatedCandidateLists
    /\ RunLists
    /\ CallIdle
    /\ AuditIdle
    /\ ExtIdle

SpecIsolated == InitIsolated /\ [][NextRun]_vars

(***************************************************************************)
(* SpecComponent: one call of component_consistency_check or of            *)
(* consistency_check on an oracle response with absent or null fields      *)
(***************************************************************************)
InitComponent ==
    /\ pc = "audit_ready"
    /\ mark = Acme
    /\ raw_results \in ComponentResults \cup NullableClassifications
    /\ oracle_outcome = "none"
    /\ corrected_results = NoResult
    /\ proposed_name = <<>>
    /\ proposed_class = <<>>
    /\ proposed_goods_services = <<>>
    /\ CallIdle
    /\ RunIdle
    /\ ExtIdle

CallComponentConsistencyCheck ==
    /\ pc = "audit_ready"
    /\ IF component_consistency_check_raises(raw_results)
       THEN /\ corrected_results' = Raised("TypeError")
            /\ pc' = "component_raised"
            /\ UNCHANGED raw_results
       ELSE \E corrected \in {component_consistency_check(mark, raw_results)} :
            /\ corrected_results' = corrected
            /\ raw_results' =
                   results_after_component_consistency_check(raw_results, corrected)
            /\ pc' = "component_checked"
    /\ UNCHANGED <<mark, oracle_outcome, callVars, runVars, extVars>>

NextComponent == CallComponentConsistencyCheck \/ CallConsistencyCheck

SpecComponent == InitComponent /\ [][NextComponent]_vars

(***************************************************************************)
(* SpecEnhanced: one call of is_llm_prominent_phonetic_match or of         *)
(* compare_trademarks_enhanced                                             *)
(***************************************************************************)
InitEnhanced ==
    /\ pc = "enhanced_ready"
    /\ existing_trademark \in EnhancedCandidates
    /\ proposed_name \in EnhancedNames
    /\ proposed_class \in EnhancedClassStrings
    /\ proposed_goods_services \in EnhancedGoods
    /\ fallback_strategy \in FallbackStrategies
    /\ answers = NoAnswers
    /\ result = NoResult
    /\ AuditIdle
    /\ RunIdle
    /\ EvalIdle

CallIsLlmProminentPhoneticMatch ==
    /\ pc = "enhanced_ready"
    /\ \E reply \in EnhancedReplies(existing_trademark.trademark_name,
                                     proposed_name, fallback_strategy) :
        /\ answers' = reply
        /\ result' = Returned(is_llm_prominent_phonetic_match(
                          existing_trademark.trademark_name, proposed_name,
                          ProminentThreshold, fallback_strategy, reply))
    /\ pc' = "matched"
    /\ UNCHANGED <<proposed_name, proposed_class, proposed_goods_services,
                   existing_trademark, fallback_strategy, evalVars, auditVars, runVars>>

\* compare_trademarks_enhanced leaves fallback_strategy at its default
CallCompareTrademarksEnhanced ==
    /\ pc = "enhanced_ready"
    /\ fallback_strategy = "last"
    /\ \E reply \in EnhancedReplies(strip(existing_trademark.trademark_name),
                                     proposed_name, "last") :
        /\ answers' = reply
        /\ result' = Returned(compare_trademarks_enhanced(existing_trademark,
                          proposed_name, proposed_class, proposed_goods_services, reply))
    /\ pc' = "enhanced"
    /\ UNCHANGED <<proposed_name, proposed_class, proposed_goods_services,
                   existing_trademark, fallback_strategy, evalVars, auditVars, runVars>>

NextEnhanced == CallIsLlmProminentPhoneticMatch \/ CallCompareTrademarksEnhanced

SpecEnhanced == InitEnhanced /\ [][NextEnhanced]_vars

(***************************************************************************)
(* SpecEval: one call of an evaluator on two texts                         *)
(***************************************************************************)
\* the texts the evaluators are applied to
EvalTexts ==
    {<<>>,
     <<" ">>,
     <<" ", "\t", " ">>,
     <<"S","h","o","w","e","r"," ","p","r","o","d","u","c","t","s">>,
     <<"S","h","a","m","p","o","o","s">>,
     <<"h","a","i","r">>,
     <<"h","a","i","r"," ","c","o","l","o","r">>,
     <<"S","h","i","r","t","s">>,
     <<"capital_i_dot","n","k">>,
     <<"C","o","l","o","r","g","r","i","p">>,
     <<" ","C","O","L","O","R","G","R","I","P"," ">>}

\* fuzzywuzzy fuzz.ratio(s1, s2): 0 when either text is empty, 100 on equal
\* texts, else a score on either side of the threshold.  The score is that of
\* a SequenceMatcher built on (s1, s2): difflib's when python-Levenshtein is
\* not installed, whose ratio depends on the order of its two arguments
fuzz_ratio(s1, s2, threshold) ==
    IF s1 = <<>> \/ s2 = <<>> THEN {0}
    ELSE IF s1 = s2 THEN {100}
    ELSE {threshold - 1, threshold}

\* semantic_model.encode of the two normalized texts and util.cos_sim of the
\* embeddings, in hundredths: the model is deterministic, so equal texts have
\* equal embeddings and the cosine of a vector with itself is 1.0
cos_sim(text1, text2, threshold) ==
    IF text1 = text2 THEN {100} ELSE {threshold - 1, threshold}

InitEval ==
    /\ pc = "eval_ready"
    /\ left_text \in EvalTexts
    /\ right_text \in EvalTexts
    /\ evaluation = NoResult
    /\ EnhancedIdle
    /\ proposed_name = <<>>
    /\ proposed_class = <<>>
    /\ proposed_goods_services = <<>>
    /\ CallIdle
    /\ AuditIdle
    /\ RunIdle

\* comparison_service.py: target_market_and_goods_overlap(left_text, right_text)
EvalTargetMarketAndGoodsOverlap ==
    /\ pc = "eval_ready"
    /\ \E texts \in {<<normalize_text(left_text), normalize_text(right_text)>>} :
       \E similarity_score \in cos_sim(texts[1], texts[2], GoodsOverlapThreshold) :
          evaluation' =
              [function |-> "target_market_and_goods_overlap",
               normalized |-> texts,
               similarity_score |-> similarity_score,
               returned |-> target_market_and_goods_overlap(
                                texts[1], texts[2], similarity_score)]
    /\ pc' = "evaluated"
    /\ UNCHANGED <<left_text, right_text, fallback_strategy, callVars, auditVars, runVars>>

\* validation.py: is_similar_goods_services(left_text, right_text)
EvalIsSimilarGoodsServices ==
    /\ pc = "eval_ready"
    /\ \E texts \in {<<is_similar_goods_services_normalize_text(left_text),
                       is_similar_goods_services_normalize_text(right_text)>>} :
       \E similarity_score \in cos_sim(texts[1], texts[2], SimilarGoodsThreshold) :
          evaluation' =
              [function |-> "is_similar_goods_services",
               normalized |-> texts,
               similarity_score |-> similarity_score,
               returned |-> is_similar_goods_services(
                                texts[1], texts[2], similarity_score)]
    /\ pc' = "evaluated"
    /\ UNCHANGED <<left_text, right_text, fallback_strategy, callVars, auditVars, runVars>>

\* text_processing.py: normalize_text(left_text), and normalize_text of that
EvalNormalizeText ==
    /\ pc = "eval_ready"
    /\ \E once \in {normalize_text(left_text)} :
          evaluation' = [function |-> "normalize_text",
                         returned |-> once,
                         returned_again |-> normalize_text(once)]
    /\ pc' = "evaluated"
    /\ UNCHANGED <<left_text, right_text, fallback_strategy, callVars, auditVars, runVars>>

\* validation.py: the normalize_text of is_similar_goods_services on
\* left_text, and on what it returned
EvalGoodsNormalizeText ==
    /\ pc = "eval_ready"
    /\ \E once \in {is_similar_goods_services_normalize_text(left_text)} :
          evaluation' = [function |-> "is_similar_goods_services.normalize_text",
                         returned |-> once,
                         returned_again |-> is_similar_goods_services_normalize_text(once)]
    /\ pc' = "evaluated"
    /\ UNCHANGED <<left_text, right_text, fallback_strategy, callVars, auditVars, runVars>>

\* comparison_service.py: Condition 1A on (left_text, right_text) and on the
\* two names swapped
EvalCondition1A ==
    /\ pc = "eval_ready"
    /\ evaluation' = [function |-> "condition_1A_satisfied",
                      returned |-> condition_1A_satisfied(left_text, right_text),
                      returned_swapped |-> condition_1A_satisfied(right_text, left_text)]
    /\ pc' = "evaluated"
    /\ UNCHANGED <<left_text, right_text, fallback_strategy, callVars, auditVars, runVars>>

\* validation.py: is_substring_match(left_text, right_text) and
\* is_substring_match(right_text, left_text)
EvalIsSubstringMatch ==
    /\ pc = "eval_ready"
    /\ evaluation' = [function |-> "is_substring_match",
                      returned |-> is_substring_match(left_text, right_text),
                      returned_swapped |-> is_substring_match(right_text, left_text)]
    /\ pc' = "evaluated"
    /\ UNCHANGED <<left_text, right_text, fallback_strategy, callVars, auditVars, runVars>>

\* ml_utils.py: is_phonetically_equivalent(left_text, right_text) and
\* is_phonetically_equivalent(right_text, left_text), two calls of fuzz.ratio
EvalIsPhoneticallyEquivalent ==
    /\ pc = "eval_ready"
    /\ \E ratio \in fuzz_ratio(lower(left_text), lower(right_text),
                                 PHONETIC_SIMILARITY_THRESHOLD) :
       \E ratio_swapped \in fuzz_ratio(lower(right_text), lower(left_text),
                                         PHONETIC_SIMILARITY_THRESHOLD) :
          evaluation' = [function |-> "is_phonetically_equivalent",
                         ratio |-> ratio,
                         ratio_swapped |-> ratio_swapped,
                         returned |-> is_phonetically_equivalent(ratio),
                         returned_swapped |-> is_phonetically_equivalent(ratio_swapped)]
    /\ pc' = "evaluated"
    /\ UNCHANGED <<left_text, right_text, fallback_strategy, callVars, auditVars, runVars>>

NextEval ==
    \/ EvalTargetMarketAndGoodsOverlap
    \/ EvalIsSimilarGoodsServices
    \/ EvalNormalizeText
    \/ EvalGoodsNormalizeText
    \/ EvalCondition1A
    \/ EvalIsSubstringMatch
    \/ EvalIsPhoneticallyEquivalent

SpecEval == InitEval /\ [][NextEval]_vars

(***************************************************************************)
(* SpecDistance: one call of levenshtein_distance on two short texts       *)
(***************************************************************************)
\* the longest text over the two-letter alphabet
MaxDistanceLen == 3

\* every text of at most MaxDistanceLen letters over a and b
BinaryTexts == UNION {[1..n -> {"a", "b"}] : n \in 0..MaxDistanceLen}

\* Acme and marks one and two edits away from it
AcmeTexts ==
    {<<"A","c","m","e">>, <<"A","c","m","m","e">>, <<"A","k","m","e">>,
     <<"A","k","k","m","e">>}

DistancePairs == (BinaryTexts \X BinaryTexts) \cup (AcmeTexts \X AcmeTexts)

InitDistance ==
    /\ pc = "eval_ready"
    /\ \E pair \in DistancePairs :
        /\ left_text = pair[1]
        /\ right_text = pair[2]
    /\ evaluation = NoResult
    /\ EnhancedIdle
    /\ proposed_name = <<>>
    /\ proposed_class = <<>>
    /\ proposed_goods_services = <<>>
    /\ CallIdle
    /\ AuditIdle
    /\ RunIdle

EvalLevenshteinDistance ==
    /\ pc = "eval_ready"
    /\ evaluation' = [function |-> "levenshtein_distance",
                      returned |-> levenshtein_distance(left_text, right_text),
                      returned_swapped |-> levenshtein_distance(right_text, left_text)]
    /\ pc' = "evaluated"
    /\ UNCHANGED <<left_text, right_text, fallback_strategy, callVars, auditVars, runVars>>

SpecDistance == InitDistance /\ [][EvalLevenshteinDistance]_vars

(***************************************************************************)
(* Properties of a single comparison (specification Spec)                  *)
(***************************************************************************)
\* C1: for every candidate whose status holds cancelled, abandoned or expired
\* (any casing, any surrounding whitespace), a call of compare_trademarks and a
\* call of assess_conflict both return a verdict whose conflict_grade is Low,
\* whatever the name, the class string and the goods/services are.
C1_DeadStatusReturnsLow ==
    (pc \in {"compared", "assessed"} /\ existing_trademark.status \in DeadStatuses)
        => /\ result.kind = "returned"
           /\ result.verdict.conflict_grade = "Low"

\* C2: for a candidate whose status is not dead, the grade compare_trademarks
\* returns is fixed by the number of true conditions among name, class and
\* goods/services: 3 High, 2 Moderate, 1 Low, 0 None.
C2_GradeIsCountOfConditions ==
    (/\ pc = "compared"
     /\ existing_trademark.status \in LiveStatuses
     /\ result.kind = "returned")
        => LET r == result.verdict.reasoning
               n == BoolInt(r.condition_1) + BoolInt(r.condition_2)
                    + BoolInt(r.condition_3)
           IN  /\ r.kind = "conditions"
               /\ n = 3 => result.verdict.conflict_grade = "High"
               /\ n = 2 => result.verdict.conflict_grade = "Moderate"
               /\ n = 1 => result.verdict.conflict_grade = "Low"
               /\ n = 0 => result.verdict.conflict_grade = "None"

\* a live candidate graded Moderate with the class and goods/services conditions
\* true and the name condition false
C2_Witness ==
    /\ pc = "compared"
    /\ existing_trademark.status \in LiveStatuses
    /\ result.kind = "returned"
    /\ result.verdict.reasoning.kind = "conditions"
    /\ ~result.verdict.reasoning.condition_1
    /\ result.verdict.reasoning.condition_2
    /\ result.verdict.reasoning.condition_3
    /\ result.verdict.conflict_grade = "Moderate"

\* the case of C7: live status, names equal ignoring case and surrounding
\* whitespace, a shared class number, a shared lemma in the normalized goods
C7_Case ==
    /\ existing_trademark.status \in LiveStatuses
    /\ lower(strip(existing_trademark.trademark_name)) = lower(strip(proposed_name))
    /\ proposed_class \in WellFormedClassStrings
    /\ Range(existing_trademark.international_class_number)
           \cap Range(proposed_classes(proposed_class)) # {}
    /\ common_words(normalized[existing_trademark.goods_services],
                    normalized[proposed_goods_services])

\* C7: a live candidate with the proposed name (ignoring case and surrounding
\* whitespace), a class in common and a lemma in common in the goods/services is
\* graded High by compare_trademarks, whatever similarities the embedding
\* collaborator returns.
C7_SameNameClassGoodsIsHigh ==
    (pc = "compared" /\ C7_Case /\ ~answers.failed)
        => /\ result.kind = "returned"
           /\ result.verdict.conflict_grade = "High"

\* ColorGrip / {3} / hair color / Registered against Colorgrip / 3 /
\* permanent hair color, every similarity below its threshold
C7_Witness ==
    /\ pc = "compared"
    /\ existing_trademark.trademark_name = ColorGrip
    /\ existing_trademark.status = Registered
    /\ existing_trademark.international_class_number = <<3>>
    /\ existing_trademark.goods_services = <<"h","a","i","r"," ","c","o","l","o","r">>
    /\ proposed_name = Colorgrip
    /\ proposed_class = <<"3">>
    /\ proposed_goods_services =
           <<"p","e","r","m","a","n","e","n","t"," ","h","a","i","r"," ","c","o","l","o","r">>
    /\ ~answers.failed
    /\ answers.name_similarity < SEMANTIC_SIMILARITY_THRESHOLD
    /\ answers.goods_similarity < GoodsOverlapThreshold
    /\ result.kind = "returned"
    /\ result.verdict.conflict_grade = "High"

\* the six signals of the cross-class detector, from the inputs and the
\* collaborators' answers
C9_SomeSignal ==
    LET existing_name == normalize_text_name(existing_trademark.trademark_name)
        name == normalize_text_name(proposed_name)
    IN  \/ existing_name = name \/ answers.codes_equal
        \/ is_substring_match(existing_name, name)
        \/ has_shared_word(existing_name, name)
        \/ answers.semantic_similarity >= 50
        \/ answers.string_similarity >= 55
        \/ answers.partial_ratio >= 55

\* C9: for a live candidate assess_conflict returns Name-Match exactly when one
\* of the six signals holds (phonetic codes equal, substring, shared word,
\* semantic similarity >= 0.5, ratio >= 55, partial ratio >= 55), else Low.
C9_NameMatchIffSomeSignal ==
    (/\ pc = "assessed"
     /\ existing_trademark.status \in LiveStatuses
     /\ ~answers.failed)
        => /\ result.kind = "returned"
           /\ result.verdict.conflict_grade =
                  IF C9_SomeSignal THEN "Name-Match" ELSE "Low"

\* C10: on a proposed class string that is no comma-separated list of integers
\* compare_trademarks does not raise: it returns a verdict, computed with an
\* empty proposed class set, so that Condition 2 is false.
C10_MalformedClassesDegrade ==
    (pc = "compared" /\ proposed_class \in MalformedClassStrings /\ ~answers.failed)
        => /\ result.kind = "returned"
           /\ result.verdict.reasoning.kind = "conditions"
                  => ~result.verdict.reasoning.condition_2

(***************************************************************************)
(* Properties of the audit (specification SpecAudit)                       *)
(***************************************************************************)
\* the edit distance between Acme and the mark string of an oracle entry,
\* counted by hand; an entry without a mark is compared as the empty string
DistanceFromAcme(entry) ==
    IF "mark" \notin DOMAIN entry THEN 4
    ELSE IF entry.mark = Acme THEN 0
    ELSE IF entry.mark \in {<<"A","c","m","m","e">>, <<"A","k","m","e">>} THEN 1
    ELSE IF entry.mark = <<"A","k","k","m","e">> THEN 2
    ELSE IF entry.mark = <<"A","C","M","E">> THEN 3
    ELSE 4

\* the entries consistency_check takes from the oracle's identical and
\* near-identical buckets
Reaudited ==
    get(raw_results, "identical_marks", <<>>)
    \o get(raw_results, "one_two_letter_marks", <<>>)

DistanceBuckets == {"identical_marks", "one_letter_marks", "two_letter_marks"}

\* C3: consistency_check files every entry it takes from the oracle's identical
\* and near-identical buckets by its edit distance from the proposed mark,
\* whatever bucket the oracle had put it in: 0 identical_marks, 1
\* one_letter_marks, 2 two_letter_marks, more similar_marks; the entry is in
\* no other distance bucket.
C3_FiledByDistance ==
    pc = "checked" =>
        \A k \in DOMAIN Reaudited :
            LET entry == Reaudited[k]
                d == DistanceFromAcme(entry)
                bucket == IF d = 0 THEN "identical_marks"
                          ELSE IF d = 1 THEN "one_letter_marks"
                          ELSE IF d = 2 THEN "two_letter_marks"
                          ELSE "similar_marks"
            IN  /\ entry \in Range(corrected_results[bucket])
                /\ \A other \in DistanceBuckets \ {bucket} :
                       entry \notin Range(corrected_results[other])

\* an entry at distance 1 that the oracle filed under identical_marks is in
\* one_letter_marks after the audit and not in identical_marks
C3_Witness ==
    /\ pc = "checked"
    /\ \E entry \in Range(get(raw_results, "identical_marks", <<>>)) :
        /\ DistanceFromAcme(entry) = 1
        /\ entry \in Range(corrected_results.one_letter_marks)
        /\ entry \notin Range(corrected_results.identical_marks)

\* C4: section_one_analysis drops no oracle entry: every entry of every bucket
\* of the response format it asks for (identical_marks, one_letter_marks,
\* two_letter_marks, similar_marks) is in a bucket of the result it returns.
C4_NoEntryDropped ==
    (pc = "analysed" /\ oracle_outcome = "json") =>
        \A key \in FormatBuckets \cap DOMAIN raw_results :
            \A entry \in Range(raw_results[key]) :
                \E bucket \in FormatBuckets :
                    entry \in Range(corrected_results[bucket])

\* how many times entry occurs in entries
Occurrences(entries, entry) ==
    Cardinality({k \in DOMAIN entries : entries[k] = entry})

\* C5: the output buckets of consistency_check partition the re-audited
\* entries: every occurrence of an entry taken from the identical and
\* near-identical buckets is appended to exactly one output bucket (the output
\* holds as many occurrences of it as the re-audited entries and the copied
\* similar_marks do), and no entry is in two of identical_marks,
\* one_letter_marks and two_letter_marks.
C5_BucketsPartition ==
    pc = "checked" =>
        \A entry \in Range(Reaudited) :
            /\ Occurrences(corrected_results.identical_marks, entry)
               + Occurrences(corrected_results.one_letter_marks, entry)
               + Occurrences(corrected_results.two_letter_marks, entry)
               + Occurrences(corrected_results.similar_marks, entry)
               = Occurrences(Reaudited, entry)
                 + Occurrences(get(raw_results, "similar_marks", <<>>), entry)
            /\ Cardinality({bucket \in DistanceBuckets :
                               entry \in Range(corrected_results[bucket])}) <= 1

\* two re-audited entries, one filed under one_letter_marks and one under
\* two_letter_marks
C5_Witness ==
    /\ pc = "checked"
    /\ Len(Reaudited) = 2
    /\ Len(corrected_results.one_letter_marks) = 1
    /\ Len(corrected_results.two_letter_marks) = 1
    /\ corrected_results.one_letter_marks # corrected_results.two_letter_marks

(***************************************************************************)
(* Properties of an analysis run (specification SpecRun)                   *)
(***************************************************************************)
\* the class numbers of the proposed mark
ProposedClassSet ==
    IF proposed_classes_ok(proposed_class)
    THEN Range(proposed_classes(proposed_class)) ELSE {}

\* the verdicts the run computed for the candidate with this serial number
VerdictsFor(serial_number) ==
    {n \in DOMAIN conflicts : conflicts[n].serial_number = serial_number}

\* C6: when the two grading loops of a run are over, every candidate parsed from
\* the document has exactly one verdict: from compare_trademarks when it shares
\* a class with the proposed mark, from assess_conflict otherwise.
C6_OneVerdictPerCandidate ==
    pc = "done" =>
        \A k \in DOMAIN existing_trademarks :
            LET candidate == existing_trademarks[k]
                shares == Range(candidate.international_class_number)
                              \cap ProposedClassSet # {}
            IN  /\ Cardinality(VerdictsFor(candidate.serial_number)) = 1
                /\ \A n \in VerdictsFor(candidate.serial_number) :
                       conflicts[n].function =
                           IF shares THEN "compare_trademarks" ELSE "assess_conflict"

\* C8: a live candidate whose class set is not empty and is disjoint from the
\* proposed classes, and whose name is the proposed name up to letter case, is
\* not graded by compare_trademarks: assess_conflict grades it, and its verdict,
\* filed in Name_Matchs, has grade Name-Match, whatever the collaborators return.
C8_CrossClassSameNameIsNameMatch ==
    pc = "done" =>
        \A k \in DOMAIN existing_trademarks :
            LET candidate == existing_trademarks[k] IN
            (/\ candidate.status \in LiveStatuses
             /\ candidate.international_class_number # <<>>
             /\ Range(candidate.international_class_number) \cap ProposedClassSet = {}
             /\ lower(candidate.trademark_name) = lower(proposed_name))
            => /\ \E n \in DOMAIN Name_Matchs :
                    /\ Name_Matchs[n].serial_number = candidate.serial_number
                    /\ Name_Matchs[n].function = "assess_conflict"
                    /\ Name_Matchs[n].conflict_grade = "Name-Match"
               /\ \A n \in VerdictsFor(candidate.serial_number) :
                    /\ conflicts[n].function = "assess_conflict"
                    /\ conflicts[n].conflict_grade = "Name-Match"

\* ColorGrip in class 25 against Colorgrip in class 3, the semantic and the two
\* ratio answers below their thresholds: filed in Name_Matchs
C8_Witness ==
    /\ pc = "done"
    /\ proposed_class = <<"3">>
    /\ \E k \in DOMAIN existing_trademarks :
        /\ existing_trademarks[k].trademark_name = ColorGrip
        /\ existing_trademarks[k].status = Registered
        /\ existing_trademarks[k].international_class_number = <<25>>
        /\ \E n \in DOMAIN Name_Matchs :
            /\ Name_Matchs[n].serial_number = existing_trademarks[k].serial_number
            /\ Name_Matchs[n].conflict_grade = "Name-Match"
            /\ ~Name_Matchs[n].reasoning.condition_5
            /\ ~Name_Matchs[n].reasoning.condition_6
            /\ Name_Matchs[n].reasoning.condition_4_score = 0

(***************************************************************************)
(* C11  Whenever either of the two descriptions is empty, whitespace-only, *)
(* or normalizes to the empty text (both being empty included), the        *)
(* goods/services overlap evaluator returns false.                         *)
(***************************************************************************)
GoodsEvaluators == {"target_market_and_goods_overlap", "is_similar_goods_services"}

C11_EmptyDescriptionNeverOverlaps ==
    (/\ pc = "evaluated"
     /\ evaluation.function \in GoodsEvaluators
     /\ \/ evaluation.normalized[1] = <<>>
        \/ evaluation.normalized[2] = <<>>)
    => evaluation.returned = FALSE

(***************************************************************************)
(* C12  With an empty or whitespace-only proposed name the prefix test and *)
(* the substring test are false: when every semantic and ratio signal is   *)
(* below its threshold, Condition 1 of compare_trademarks is not satisfied *)
(* and assess_conflict does not return Name-Match.                         *)
(***************************************************************************)
C12_EmptyName == strip(proposed_name) = <<>>

C12_CompareSignalsLow ==
    /\ answers.name_similarity < SEMANTIC_SIMILARITY_THRESHOLD
    /\ answers.name_ratio < PHONETIC_SIMILARITY_THRESHOLD
    /\ answers.first_words_ratio < PHONETIC_SIMILARITY_THRESHOLD

C12_AssessSignalsLow ==
    /\ ~answers.codes_equal
    /\ answers.semantic_similarity < NameMatchSemanticThreshold
    /\ answers.string_similarity < NameMatchStringThreshold
    /\ answers.partial_ratio < PartialRatioThreshold

C12_EmptyNameMatchesNothing ==
    (/\ C12_EmptyName
     /\ existing_trademark.status \in LiveStatuses
     /\ result.kind = "returned")
    => /\ (pc = "compared" /\ C12_CompareSignalsLow)
              => ~result.verdict.reasoning.condition_1
       /\ (pc = "assessed" /\ C12_AssessSignalsLow)
              => result.verdict.conflict_grade # "Name-Match"

(***************************************************************************)
(* C13  When the prominent-element oracle is unavailable, raises, or       *)
(* returns an empty string for either mark, is_llm_prominent_phonetic_match*)
(* does not raise: for every mark the oracle did not answer it uses the    *)
(* token of the configured heuristic (the last token by default), it       *)
(* returns a result with every field, and compare_trademarks_enhanced      *)
(* returns a verdict.                                                      *)
(***************************************************************************)
C13_Analysis ==
    IF pc = "enhanced" THEN result.verdict.phonetic_analysis ELSE result.verdict

C13_Name1 ==
    IF pc = "enhanced" THEN strip(existing_trademark.trademark_name)
    ELSE existing_trademark.trademark_name

C13_Strategy == IF pc = "enhanced" THEN "last" ELSE fallback_strategy

\* the oracle gave no element for the mark of this reply
C13_Unanswered(reply) ==
    \/ answers.first.kind = "client_error"
    \/ answers.second.kind = "client_error"
    \/ reply.kind # "content"
    \/ reply.content = <<>>

C13_AnalysisFields ==
    {"is_match", "prominent_element1", "prominent_element2", "phonetic_code1",
     "phonetic_code2", "exact_match", "fuzzy_score", "threshold", "used_llm"}

C13_Grades == {"High", "Moderate", "Low", "Name-Match", "No Conflict"}

C13_OracleFailureFallsBack ==
    pc \in {"matched", "enhanced"}
    => /\ result.kind = "returned"
       /\ DOMAIN C13_Analysis = C13_AnalysisFields
       /\ C13_Analysis.is_match \in BOOLEAN
       /\ C13_Unanswered(answers.first)
             => C13_Analysis.prominent_element1 =
                    get_prominent_element(C13_Name1, C13_Strategy)
       /\ C13_Unanswered(answers.second)
             => C13_Analysis.prominent_element2 =
                    get_prominent_element(proposed_name, C13_Strategy)
       /\ pc = "enhanced" => result.verdict.conflict_grade \in C13_Grades

\* the oracle is unavailable for ColorGrip and answers nothing for Kolor Grip:
\* the enhanced grader compares colorgrip with grip and returns a verdict
C13_Witness ==
    /\ pc = "enhanced"
    /\ existing_trademark.trademark_name = ColorGrip
    /\ proposed_name = <<"K","o","l","o","r"," ","G","r","i","p">>
    /\ answers.first.kind = "unavailable"
    /\ answers.second = [kind |-> "content", content |-> <<>>]
    /\ result.kind = "returned"
    /\ result.verdict.phonetic_analysis.prominent_element1 =
           <<"c","o","l","o","r","g","r","i","p">>
    /\ result.verdict.phonetic_analysis.prominent_element2 = <<"g","r","i","p">>
    /\ result.verdict.conflict_grade \in C13_Grades

(***************************************************************************)
(* C14  After component_consistency_check every mark entry of every        *)
(* component has mark, owner, goods_services, status, class, class_match   *)
(* and goods_services_match, and crowded_field has total_hits,             *)
(* distinct_owner_percentage, is_crowded and explanation: an absent flag   *)
(* is False, an absent string 'Unknown', an absent crowded-field number 0, *)
(* and every field that was present keeps its value.                       *)
(* As amended: an absent explanation of crowded_field is 'Unable to        *)
(* determine crowded field status'; every other default is as stated.      *)
(***************************************************************************)
C14_Flags == {"class_match", "goods_services_match"}

C14_MarkEntryFields ==
    {"mark", "owner", "goods_services", "status", "class"} \cup C14_Flags

C14_Numbers == {"total_hits", "distinct_owner_percentage"}

C14_CrowdedFieldMembers == C14_Numbers \cup {"is_crowded", "explanation"}

\* the entry after is the entry before with every absent field at its default
C14_EntryRepaired(before, after) ==
    /\ C14_MarkEntryFields \subseteq DOMAIN after
    /\ \A field \in DOMAIN before : after[field] = before[field]
    /\ \A field \in C14_MarkEntryFields \ DOMAIN before :
          IF field \in C14_Flags THEN after[field] = FALSE
          ELSE after[field] = "Unknown"

C14_EntriesRepaired(before, after) ==
    /\ "components" \in DOMAIN after
    /\ Len(after["components"]) = Len(get(before, "components", <<>>))
    /\ \A c \in 1..Len(after["components"]) :
          /\ "marks" \in DOMAIN after["components"][c]
          /\ Len(after["components"][c]["marks"])
                 = Len(get(before["components"][c], "marks", <<>>))
          /\ \A m \in 1..Len(after["components"][c]["marks"]) :
                 C14_EntryRepaired(before["components"][c]["marks"][m],
                                   after["components"][c]["marks"][m])

\* crowded_field after is crowded_field before (no member when it was absent)
\* with every absent member at its default
C14_CrowdedFieldRepaired(before, after, text) ==
    /\ "crowded_field" \in DOMAIN after
    /\ C14_CrowdedFieldMembers \subseteq DOMAIN after["crowded_field"]
    /\ \A member \in DOMAIN get(before, "crowded_field", <<>>) :
          after["crowded_field"][member] = before["crowded_field"][member]
    /\ \A member \in C14_CrowdedFieldMembers \ DOMAIN get(before, "crowded_field", <<>>) :
          IF member \in C14_Numbers THEN after["crowded_field"][member] = 0
          ELSE IF member = "is_crowded" THEN after["crowded_field"][member] = FALSE
          ELSE after["crowded_field"][member] = text

\* the claim as stated: an absent explanation becomes 'Unknown'
C14_FieldsRepairedAbsentStringsUnknown ==
    [][pc' = "component_checked"
         => /\ C14_EntriesRepaired(raw_results, corrected_results')
            /\ C14_CrowdedFieldRepaired(raw_results, corrected_results', "Unknown")]_vars

\* the claim as amended
C14_FieldsRepaired ==
    [][pc' = "component_checked"
         => /\ C14_EntriesRepaired(raw_results, corrected_results')
            /\ C14_CrowdedFieldRepaired(raw_results, corrected_results',
                   "Unable to determine crowded field status")]_vars

\* a response whose only mark entry has a mark and nothing else and whose
\* crowded_field has a percentage and an explanation: the repaired entry keeps
\* its mark, the repaired crowded_field its two members
C14_Witness ==
    /\ pc = "component_checked"
    /\ Len(corrected_results["components"]) = 1
    /\ Len(corrected_results["components"][1]["marks"]) = 1
    /\ corrected_results["components"][1]["marks"][1] =
           [mark |-> "ACME", owner |-> "Unknown", goods_services |-> "Unknown",
            status |-> "Unknown", class |-> "Unknown", class_match |-> FALSE,
            goods_services_match |-> FALSE]
    /\ corrected_results["crowded_field"] =
           [total_hits |-> 0, distinct_owner_percentage |-> 75,
            is_crowded |-> FALSE, explanation |-> "Many owners"]

(***************************************************************************)
(* C15  consistency_check and component_consistency_check never raise      *)
(* because of a missing field: on an oracle output in which a bucket, a    *)
(* component key, a mark-entry field (the mark string included) or a       *)
(* crowded-field member is absent, they return a result.                   *)
(***************************************************************************)
\* fields of the response are absent at most: none is null
C15_NothingNull ==
    /\ \A key \in AuditedBuckets \cap DOMAIN raw_results :
          \A k \in 1..Len(raw_results[key]) :
              get(raw_results[key][k], "mark", <<>>) # NoneMark
    /\ get(raw_results, "crowded_field", <<>>) # NoneObject

C15_MissingFieldNeverRaises ==
    (/\ pc \in {"checked", "check_raised", "component_checked", "component_raised"}
     /\ C15_NothingNull)
    => /\ pc \in {"checked", "component_checked"}
       /\ corrected_results # Raised("TypeError")
       /\ pc = "checked" => DOMAIN corrected_results = FormatBuckets
       /\ pc = "component_checked"
             => {"identified_coordinated_classes", "coordinated_classes_explanation",
                 "components", "crowded_field"} \subseteq DOMAIN corrected_results

\* the only entry of the response has no mark: consistency_check takes the
\* empty string for it and files the entry, at distance 4 of Acme, as similar
C15_Witness ==
    /\ pc = "checked"
    /\ raw_results = [identical_marks |-> <<[owner |-> "Owner"]>>]
    /\ corrected_results =
           [identical_marks |-> <<>>, one_letter_marks |-> <<>>,
            two_letter_marks |-> <<>>, similar_marks |-> <<[owner |-> "Owner"]>>]

(***************************************************************************)
(* C16  Normalization is idempotent: normalize_text(normalize_text(s))     *)
(* equals normalize_text(s) for every string s, for the engine normalizer  *)
(* and for the goods/services normalizer.                                  *)
(***************************************************************************)
Normalizers == {"normalize_text", "is_similar_goods_services.normalize_text"}

C16_NormalizationIdempotent ==
    (pc = "evaluated" /\ evaluation.function \in Normalizers)
    => evaluation.returned_again = evaluation.returned

(***************************************************************************)
(* C17  The exact-match, substring-match and phonetic-ratio evaluators are *)
(* symmetric: for all names a and b, swapping the two arguments gives the  *)
(* same boolean result.                                                    *)
(***************************************************************************)
NameEvaluators ==
    {"condition_1A_satisfied", "is_substring_match", "is_phonetically_equivalent"}

C17_EvaluatorsSymmetric ==
    (pc = "evaluated" /\ evaluation.function \in NameEvaluators)
    => evaluation.returned_swapped = evaluation.returned

(***************************************************************************)
(* C18  Comparisons share no mutable state: no step of a run modifies a    *)
(* candidate record or the proposed name, classes and goods/services, and  *)
(* every verdict of a run is a verdict the grader returns for that         *)
(* candidate and the proposed mark alone, on some answers of its           *)
(* collaborators: it does not depend on the candidates evaluated before or *)
(* after it.                                                               *)
(***************************************************************************)
\* the verdict is one compare_trademarks or assess_conflict returns for the
\* candidate and the proposed mark alone, on some answers of the collaborators
C18_ReturnedAlone(candidate, verdict) ==
    IF verdict.function = "compare_trademarks"
    THEN \E a \in CompareAnswers(candidate.trademark_name, proposed_name) :
            compare_trademarks(candidate, proposed_name, proposed_class,
                               proposed_goods_services, a) = Returned(verdict)
    ELSE \E a \in AssessAnswers :
            assess_conflict(candidate, proposed_name, proposed_class,
                            proposed_goods_services, a) = Returned(verdict)

C18_InputsUnmodified ==
    /\ proposed_name' = proposed_name
    /\ proposed_class' = proposed_class
    /\ proposed_goods_services' = proposed_goods_services
    /\ existing_trademarks' = existing_trademarks

\* the verdict a step appends is one the grader returns for its candidate alone
C18_NewVerdictReturnedAlone ==
    Len(conflicts') = Len(conflicts) + 1
    => \E k \in DOMAIN existing_trademarks :
          /\ existing_trademarks[k].serial_number
                 = conflicts'[Len(conflicts')].serial_number
          /\ C18_ReturnedAlone(existing_trademarks[k], conflicts'[Len(conflicts')])

C19_FlagsAgreeWithConditions ==
    (/\ pc = "compared"
     /\ result.kind = "returned"
     /\ result.verdict.reasoning.kind = "conditions")
    => /\ result.verdict.Mark = result.verdict.reasoning.condition_1
       /\ result.verdict.Class = result.verdict.reasoning.condition_2
       /\ result.verdict.Goods_Services = result.verdict.reasoning.condition_3

(***************************************************************************)
(* C20  For a candidate of dead status compare_trademarks decides the      *)
(* status override before any scoring: no evaluator is called, so a        *)
(* failure of a collaborator neither prevents nor changes the verdict, and *)
(* the call returns the Low verdict of the override.                       *)
(***************************************************************************)
C20_DeadStatusAsksNoCollaborator ==
    (/\ pc = "compared"
     /\ existing_trademark.status \in DeadStatuses
     /\ proposed_classes_ok(proposed_class)
     /\ answers.failed)
    => /\ result.kind = "returned"
       /\ result.verdict.conflict_grade = "Low"
       /\ result.verdict.reasoning.kind = "status_override"

(***************************************************************************)
(* C21  In the reasoning assess_conflict gives for a live candidate each   *)
(* of the six sub-conditions has its own line, marked Satisfied exactly    *)
(* when the sub-condition is true, and the lines of the semantic           *)
(* similarity, of the ratio and of the partial ratio show the score that   *)
(* was computed.                                                           *)
(***************************************************************************)
C21_ReasoningReportsSignals ==
    (/\ pc = "assessed"
     /\ existing_trademark.status \in LiveStatuses
     /\ result.kind = "returned")
    => LET r == result.verdict.reasoning
           existing_name == normalize_text_name(existing_trademark.trademark_name)
           name == normalize_text_name(proposed_name)
       IN  /\ r.kind = "signals"
           /\ r.condition_1 = phonetic_match(existing_name, name, answers.codes_equal)
           /\ r.condition_2 = is_substring_match(existing_name, name)
           /\ r.condition_3 = has_shared_word(existing_name, name)
           /\ r.condition_4 = (answers.partial_ratio >= PartialRatioThreshold)
           /\ r.condition_4_score = answers.partial_ratio
           /\ r.condition_5 = (answers.semantic_similarity >= NameMatchSemanticThreshold)
           /\ r.condition_5_score = answers.semantic_similarity
           /\ r.condition_6 = (answers.string_similarity >= NameMatchStringThreshold)
           /\ r.condition_6_score = answers.string_similarity

(***************************************************************************)
(* C22  A verdict labels the candidate Design exactly when a design phrase *)
(* is present: a candidate whose design phrase is the sentinel, or is      *)
(* absent (the empty string the record defaults to), is labelled Word.     *)
(***************************************************************************)
C22_DesignIffPhrasePresent ==
    (pc \in {"compared", "assessed"} /\ result.kind = "returned")
    => result.verdict.word_design =
           IF existing_trademark.design_phrase \in {NoDesignPhrase, ""}
           THEN "Word" ELSE "Design"

(***************************************************************************)
(* C23  used_llm records whether the oracle path succeeded: it is true     *)
(* exactly when the oracle supplied both prominent elements and false when *)
(* the fallback supplied either of them, so the reasoning of the enhanced  *)
(* grader says "LLM identified" only for elements the oracle supplied.     *)
(***************************************************************************)
\* the oracle supplied the element of this reply: no call raised and the
\* element detected in the reply is not empty
C23_Supplied(reply) ==
    /\ detect_prominent_component_with_llm(answers.first).kind = "returned"
    /\ detect_prominent_component_with_llm(answers.second).kind = "returned"
    /\ detect_prominent_component_with_llm(reply).verdict # <<>>

C23_UsedLlmIffOracleSupplied ==
    pc \in {"matched", "enhanced"}
    => LET analysis == IF pc = "enhanced" THEN result.verdict.phonetic_analysis
                       ELSE result.verdict
           supplied == C23_Supplied(answers.first) /\ C23_Supplied(answers.second)
       IN  /\ analysis.used_llm = supplied
           /\ pc = "enhanced"
                 => (result.verdict.reasoning[1].line = "LLM identified prominent elements")
                        = supplied

(***************************************************************************)
(* C26  The class condition is a set-intersection test: class_overlap of   *)
(* compare_trademarks_enhanced is true exactly when a class number of the  *)
(* candidate equals a class number of the proposed mark (class 3 does not  *)
(* overlap the proposed class list 35).                                    *)
(***************************************************************************)
C26_ClassOverlapIsIntersection ==
    pc = "enhanced"
    => result.verdict.class_overlap =
           (Range(existing_trademark.international_class_number)
                \cap Range(proposed_classes(proposed_class)) # {})

(***************************************************************************)
(* C27  The status override holds in the enhanced grader: for a candidate  *)
(* whose status holds cancelled, abandoned or expired,                     *)
(* compare_trademarks_enhanced returns the grade Low whatever the          *)
(* prominent-element, class and goods/services conditions are.             *)
(***************************************************************************)
C27_EnhancedDeadStatusIsLow ==
    (pc = "enhanced" /\ status_is_dead(existing_trademark.status))
    => result.verdict.conflict_grade = "Low"

(***************************************************************************)
(* C24  consistency_check passes the oracle's similar_marks through        *)
(* unchanged: they are in the similar bucket of the output in their        *)
(* original order, ahead of every re-filed entry, and the call leaves the  *)
(* classification it was given, its similar_marks list included, as it     *)
(* was.                                                                    *)
(***************************************************************************)
C24_SimilarMarksPassThrough ==
    [][pc' = "checked"
          => /\ raw_results' = raw_results
             /\ LET similar == get(raw_results, "similar_marks", <<>>)
                IN  /\ Len(corrected_results'.similar_marks) >= Len(similar)
                    /\ SubSeq(corrected_results'.similar_marks, 1, Len(similar))
                           = similar]_vars

\* the oracle filed Zest as similar and ACME as identical: after the audit the
\* similar bucket holds Zest, then ACME
C24_Witness ==
    /\ pc = "checked"
    /\ "similar_marks" \in DOMAIN raw_results
    /\ "identical_marks" \in DOMAIN raw_results
    /\ Len(raw_results.similar_marks) = 1
    /\ Len(raw_results.identical_marks) = 1
    /\ raw_results.similar_marks[1] # raw_results.identical_marks[1]
    /\ corrected_results.similar_marks
           = <<raw_results.similar_marks[1], raw_results.identical_marks[1]>>

(***************************************************************************)
(* C25  A mark that is an exact match of the proposed mark (equal ignoring *)
(* letter case and surrounding whitespace), which the oracle is asked to   *)
(* file as identical, is in identical_marks after consistency_check.       *)
(***************************************************************************)
C25_ExactMatchFiledIdentical ==
    pc = "checked"
    => \A entry \in Range(get(raw_results, "identical_marks", <<>>)) :
          ("mark" \in DOMAIN entry /\ lower(strip(entry.mark)) = lower(strip(mark)))
              => entry \in Range(corrected_results.identical_marks)

(***************************************************************************)
(* C28  levenshtein_distance(a, b) is the least number of insertions,      *)
(* deletions and substitutions of one character that turn a into b, for    *)
(* all texts over a bounded alphabet and length; it is symmetric and is 0  *)
(* exactly when a = b. Acme is at 0 of Acme, at 1 of Acmme, at 1 of Akme   *)
(* and at 2 of Akkme.                                                      *)
(***************************************************************************)
\* the texts one edit away from s, over the alphabet, no longer than cap
C28_OneEdit(s, alphabet, cap) ==
    {SubSeq(s, 1, k - 1) \o SubSeq(s, k + 1, Len(s)) : k \in 1..Len(s)}
    \cup {[s EXCEPT ![k] = c] : k \in 1..Len(s), c \in alphabet}
    \cup (IF Len(s) < cap
          THEN {SubSeq(s, 1, k) \o <<c>> \o SubSeq(s, k + 1, Len(s)) :
                    k \in 0..Len(s), c \in alphabet}
          ELSE {})

\* the number of rounds of single edits after which target is reached
RECURSIVE C28_Rounds(_, _, _, _, _)
C28_Rounds(reached, target, alphabet, cap, rounds) ==
    IF target \in reached THEN rounds
    ELSE C28_Rounds(reached \cup UNION {C28_OneEdit(s, alphabet, cap) : s \in reached},
                    target, alphabet, cap, rounds + 1)

\* the least number of edits from a to b: the letters of a and b and the
\* greater of their lengths are enough for a shortest sequence of edits
C28_MinimumEdits(a, b) ==
    C28_Rounds({a}, b, Range(a) \cup Range(b),
               IF Len(a) < Len(b) THEN Len(b) ELSE Len(a), 0)

C28_Literals ==
    [a \in {<<"A","c","m","e">>} |->
        (<<"A","c","m","e">> :> 0) @@ (<<"A","c","m","m","e">> :> 1)
        @@ (<<"A","k","m","e">> :> 1) @@ (<<"A","k","k","m","e">> :> 2)]

C28_DistanceIsMinimumEdits ==
    (pc = "evaluated" /\ evaluation.function = "levenshtein_distance")
    => /\ evaluation.returned = C28_MinimumEdits(left_text, right_text)
       /\ evaluation.returned_swapped = evaluation.returned
       /\ (evaluation.returned = 0) = (left_text = right_text)
       /\ (left_text = <<"A","c","m","e">> /\ right_text \in AcmeTexts)
             => evaluation.returned = C28_Literals[left_text][right_text]

\* the distance from Acme to Akkme was computed: two substitutions and an
\* insertion would be three edits, a substitution and an insertion are two
C28_Witness ==
    /\ pc = "evaluated"
    /\ evaluation.function = "levenshtein_distance"
    /\ left_text = <<"A","c","m","e">>
    /\ right_text = <<"A","k","k","m","e">>
    /\ evaluation.returned = 2

(***************************************************************************)
(* C29  The normalizers apply the synonym table: a standalone token        *)
(* shampoos in the input of normalize_text is folded to hair in the        *)
(* output, in the engine normalizer as in the goods/services normalizer.   *)
(***************************************************************************)
C29_ShampoosFoldedToHair ==
    (/\ pc = "evaluated"
     /\ evaluation.function \in Normalizers
     /\ <<"s","h","a","m","p","o","o","s">> \in Range(split(lower(left_text))))
    => <<"h","a","i","r">> \in Range(split(evaluation.returned))


(***************************************************************************)
(* Specification of validate_trademark_relevance: a list of conflicts is   *)
(* filtered once, by utils/validation.py or by                             *)
(* services/comparison_service.py                                          *)
(***************************************************************************)
MaxConflicts == 3

\* the conflicts of a report: goods_services similar to the proposed goods,
\* unlike them, null, and a conflict that has no goods_services field
RelevanceConflicts ==
    {[trademark_name |-> "ColorGrip",
      goods_services |-> <<"H","a","i","r"," ","c","o","l","o","r">>],
     [trademark_name |-> "Threadline",
      goods_services |-> <<"S","h","i","r","t","s">>],
     [trademark_name |-> "Tintique",
      goods_services |-> <<"h","a","i","r"," ","d","y","e","s"," ","a","n","d"," ","t","h","e"," ","l","i","k","e">>],
     [trademark_name |-> "Nullmark", goods_services |-> NoneMark],
     [trademark_name |-> "Fieldless"]}

RelevanceConflictLists ==
    UNION {[1..n -> RelevanceConflicts] : n \in 0..MaxConflicts}

\* what the embedding model answers for one conflict
RelevanceScores ==
    {[failed |-> FALSE, score |-> SimilarGoodsThreshold - 1],
     [failed |-> FALSE, score |-> SimilarGoodsThreshold],
     [failed |-> TRUE, score |-> 0]}

InitRelevance ==
    /\ pc = "relevance_ready"
    /\ conflicts \in RelevanceConflictLists
    /\ proposed_goods_services \in
           {<<"p","e","r","m","a","n","e","n","t"," ","h","a","i","r"," ","c","o","l","o","r">>}
    /\ proposed_name = <<>>
    /\ proposed_class = <<>>
    /\ CallIdle
    /\ AuditIdle
    /\ ExtIdle
    /\ existing_trademarks = <<>>
    /\ class_list = <<>>
    /\ nfiltered_list = <<>>
    /\ unsame_class_list = <<>>
    /\ graded_same = 0
    /\ graded_unsame = 0
    /\ high_conflicts = <<>>
    /\ moderate_conflicts = <<>>
    /\ low_conflicts = <<>>
    /\ Name_Matchs = <<>>
    /\ no_conflicts = <<>>

relevanceFrame == <<proposed_name, proposed_class, proposed_goods_services, existing_trademark, auditVars, runVars, extVars>>

\* analysis_service.generate_trademark_opinion calls the function of
\* utils/validation.py
CallValidateTrademarkRelevance ==
    /\ pc = "relevance_ready"
    /\ answers' = [failed |-> FALSE, function |-> "utils.validation", scores |-> <<>>]
    /\ result' = validate_trademark_relevance(conflicts, proposed_goods_services)
    /\ pc' = "validated"
    /\ UNCHANGED relevanceFrame

\* a caller of services/comparison_service.py: the embedding model answers
\* once for every conflict
CallComparisonValidateTrademarkRelevance ==
    /\ pc = "relevance_ready"
    /\ \E scores \in [1..Len(conflicts) -> RelevanceScores] :
        /\ answers' = [failed |-> \E k \in 1..Len(conflicts) : scores[k].failed,
                       function |-> "services.comparison_service", scores |-> scores]
        /\ result' = comparison_validate_trademark_relevance(
                         conflicts, proposed_goods_services, scores)
    /\ pc' = "validated"
    /\ UNCHANGED relevanceFrame

NextRelevance ==
    \/ CallValidateTrademarkRelevance
    \/ CallComparisonValidateTrademarkRelevance

SpecRelevance == InitRelevance /\ [][NextRelevance]_vars

\* relevant is conflicts_array with some entries left out, the rest in order
RECURSIVE C30_IsSubsequence(_, _)
C30_IsSubsequence(relevant, conflicts_array) ==
    IF relevant = <<>> THEN TRUE
    ELSE IF conflicts_array = <<>> THEN FALSE
    ELSE IF Head(relevant) = Head(conflicts_array)
         THEN \/ C30_IsSubsequence(Tail(relevant), Tail(conflicts_array))
              \/ C30_IsSubsequence(relevant, Tail(conflicts_array))
         ELSE C30_IsSubsequence(relevant, Tail(conflicts_array))

C30_Count(conflicts_array, conflict) ==
    Cardinality({k \in 1..Len(conflicts_array) : conflicts_array[k] = conflict})

\* C30: whenever validate_trademark_relevance returns, in either module, the
\* number of relevant conflicts plus excluded_count is the number of input
\* conflicts, the relevant conflicts are a sub-sequence of the input in the
\* input's order, and every conflict without a goods_services field is among
\* the relevant ones as often as it is in the input.
C30_RelevanceConservesInput ==
    (pc = "validated" /\ result.kind = "returned") =>
        /\ Len(result.verdict.relevant_conflicts) + result.verdict.excluded_count
               = Len(conflicts)
        /\ C30_IsSubsequence(result.verdict.relevant_conflicts, conflicts)
        /\ \A k \in 1..Len(conflicts) :
               "goods_services" \notin DOMAIN conflicts[k] =>
                   C30_Count(result.verdict.relevant_conflicts, conflicts[k])
                       = C30_Count(conflicts, conflicts[k])

\* a returned call that kept a similar conflict, excluded an unlike one and
\* kept a conflict without the field
C30_Witness ==
    /\ pc = "validated"
    /\ result.kind = "returned"
    /\ Len(conflicts) = 3
    /\ result.verdict.excluded_count = 1
    /\ \E k \in 1..Len(conflicts) : "goods_services" \notin DOMAIN conflicts[k]
    /\ \E k \in 1..Len(result.verdict.relevant_conflicts) :
           "goods_services" \in DOMAIN result.verdict.relevant_conflicts[k]

====
